---- MODULE Spec2Model ----
(***************************************************************************)
(* Capture session of the DELTACAST VideoMaster input device               *)
(* (libavdevice/videomaster_dec.c, libavdevice/videomaster_common.c).      *)
(*                                                                         *)
(* The demuxer callbacks read_header, read_packet and read_close run       *)
(* single-threaded.  Each callback is cut into steps at the driver calls   *)
(* that open, start, lock, unlock, stop or close a resource; pc is the     *)
(* position of the running callback, "idle" between callbacks.  The        *)
(* VideoMaster SDK is outside the repository: the outcome of each driver   *)
(* call is chosen by the environment, and drv is the book the driver side  *)
(* keeps of the calls it received.                                         *)
(***************************************************************************)
EXTENDS Integers, Sequences, FiniteSets, TLC

VARIABLES
    pc,             \* position inside the running callback
    data,           \* struct VideoMasterData: the AVOption values and the url
    ctx,            \* struct VideoMasterContext of the session
    lctx,           \* videomaster_context_struct local to the HDMI audio probe
    prc,            \* av_error the HDMI audio probe returns once it has stopped the stream
    hse,            \* handle_stream_error invocations still to run, and the code to return
    hw,             \* what the hardware of the selected channel reported so far
    drv,            \* driver side: handles and slots handed out, calls received
    call,           \* the resource call the last step issued to the driver
    ret,            \* callback that returned last and its return code
    get_data,       \* last ff_videomaster_get_data: its lock_slot_status and return code
    return_code,    \* int return_code of the running read_close
    released,       \* the last step ran ff_videomaster_release_data
    pkt,            \* AVPacket filled by the last read_packet
    system_ts_base, \* static uint64_t system_ts_base of ff_videomaster_get_timestamp
    reads,          \* read_packet calls made in the process
    faults,         \* driver calls and allocations that failed in the process
    stamps,         \* readings ff_videomaster_get_timestamp made in the session
    session,        \* capture sessions the process has opened
    rx,             \* receive channels of the board under enumeration: signal and type
    device_list,    \* AVDeviceInfoList filled by ff_videomaster_list_input_devices
    locals,         \* channel_index and av_error of the running board enumeration
    audio_info,     \* VHD_AUDIOINFO: the channel pairs the deinterleaver gathers
    audio_bytes     \* the bytes of videomaster_context->audio_buffer

vars == <<pc, data, ctx, lctx, prc, hse, hw, drv, call, ret, get_data,
          return_code, released, pkt, system_ts_base, reads, faults, stamps,
          session, rx, device_list, locals, audio_info, audio_bytes>>

(***************************************************************************)
(* Bounds of the model.                                                    *)
(***************************************************************************)
MaxReads == 3
MaxTime == 2
MaxFaults == 2
MaxSessions == 2
MaxAudioChannels == 3
MaxSamples == 2

(***************************************************************************)
(* Program constants.                                                      *)
(***************************************************************************)
AVERROR_EIO == -5
AVERROR_EAGAIN == -11
AVERROR_ENOMEM == -12
AVERROR_EINVAL == -22
AV_VIDEOMASTER_TIMESTAMP_OSCILLATOR == 0
AV_VIDEOMASTER_TIMESTAMP_SYSTEM == 1
AV_VIDEOMASTER_TIMESTAMP_HARDWARE == 2
AV_VIDEOMASTER_SAMPLE_RATE_UNKNOWN == 0
AV_VIDEOMASTER_SAMPLE_SIZE_UNKNOWN == 0
NULL == 0
\* Groups of a VHD_AUDIOINFO and channels of a group, as the VideoMaster SDK
\* defines them.
VHD_NBOFGROUP == 4
VHD_NBOFCHNPERGROUP == 4

(***************************************************************************)
(* Driver status codes as handle_vhd_status tells them apart.              *)
(***************************************************************************)
VhdStatus == {"NOERROR", "TIMEOUT", "ERROR"}
VhdOkErr == {"NOERROR", "ERROR"}

\* A call on a NULL handle is refused by the driver.
StatusOn(h, statuses) == IF h = NULL THEN {"ERROR"} ELSE statuses

\* What an answer of the environment adds to faults: a failed driver call on
\* a handle the driver knows, an allocation that returned NULL.
Cost(vhd_status) == IF vhd_status = "NOERROR" THEN 0 ELSE 1
CostOn(h, vhd_status) == IF h = NULL THEN 0 ELSE Cost(vhd_status)
Lost(allocated) == IF allocated THEN 0 ELSE 1

\* handle_vhd_status without its time-out case: what C1_LockFailure must
\* tell from handle_vhd_status.
handle_vhd_status_timeout_as_error(vhd_status) ==
    IF vhd_status = "NOERROR" THEN 0 ELSE AVERROR_EIO

handle_vhd_status(vhd_status) ==
    CASE vhd_status = "NOERROR" -> 0
      [] vhd_status = "TIMEOUT" -> AVERROR_EAGAIN
      [] OTHER -> AVERROR_EIO

(***************************************************************************)
(* Channel classification.                                                 *)
(***************************************************************************)
ChannelCodes ==
    {"HDMI_TMDS", "HDMI_FRL3", "HDMI_FRL4", "HDMI_FRL5", "HDMI_FRL6",
     "HDSDI", "3GSDI", "12GSDI", "3GSDI_ASI", "12GSDI_ASI",
     "DVI", "DISPLAYPORT", "NB_VHD_CHANNELTYPE"}

\* The code of the channel whatever the query answered: what
\* C32_ChannelClassification must tell from QueriedChannelCode.
ChannelCodeWhateverStatus(code, vhd_status) == code

\* VHD_GetChannelProperty(VHD_CORE_CP_TYPE) leaves channel_type at its
\* initial NB_VHD_CHANNELTYPE when it fails.
QueriedChannelCode(code, vhd_status) ==
    IF vhd_status = "NOERROR" THEN code ELSE "NB_VHD_CHANNELTYPE"

ff_videomaster_get_channel_type_from_index(code, vhd_status) ==
    LET channel_type == QueriedChannelCode(code, vhd_status) IN
    CASE channel_type \in {"HDMI_TMDS", "HDMI_FRL3", "HDMI_FRL4", "HDMI_FRL5",
                           "HDMI_FRL6"} -> "HDMI"
      [] channel_type \in {"HDSDI", "3GSDI", "12GSDI"} -> "SDI"
      [] channel_type \in {"3GSDI_ASI", "12GSDI_ASI"} -> "ASISDI"
      [] OTHER -> "UNKNOWN"

(***************************************************************************)
(* Audio info-frame and AES status decoding tables.                        *)
(***************************************************************************)
get_sample_size_from_audio_infoframe_and_aes_status(frame, aes, sample_size) ==
    CASE frame.SampleSize = "16_BITS" -> [rc |-> 0, sample_size |-> 16]
      [] frame.SampleSize = "20_BITS" -> [rc |-> 0, sample_size |-> 20]
      [] frame.SampleSize = "24_BITS" -> [rc |-> 0, sample_size |-> 24]
      [] frame.SampleSize = "REF_STREAM_HEADER" ->
            CASE aes.MaxWordLengthSize = "20BITS" -> [rc |-> 0, sample_size |-> 20]
              [] aes.MaxWordLengthSize = "24BITS" -> [rc |-> 0, sample_size |-> 24]
              [] OTHER -> [rc |-> AVERROR_EINVAL, sample_size |-> sample_size]
      [] OTHER -> [rc |-> AVERROR_EINVAL, sample_size |-> sample_size]

\* The status-word table with each code taken at its name: what
\* C31_SampleRateTable must tell from AesSampleRate.
AesSampleRateAsNamed(code, sample_rate) ==
    CASE code = "32000HZ" -> [rc |-> 0, sample_rate |-> 32000]
      [] code = "44100HZ" -> [rc |-> 0, sample_rate |-> 44100]
      [] code = "48000HZ" -> [rc |-> 0, sample_rate |-> 48000]
      [] code = "88200HZ" -> [rc |-> 0, sample_rate |-> 88200]
      [] code = "96000HZ" -> [rc |-> 0, sample_rate |-> 96000]
      [] code = "176000HZ" -> [rc |-> 0, sample_rate |-> 176000]
      [] code = "192000HZ" -> [rc |-> 0, sample_rate |-> 192000]
      [] OTHER -> [rc |-> AVERROR_EINVAL, sample_rate |-> sample_rate]

AesSampleRate(code, sample_rate) ==
    CASE code = "32000HZ" -> [rc |-> 0, sample_rate |-> 32000]
      [] code = "44100HZ" -> [rc |-> 0, sample_rate |-> 44100]
      [] code = "48000HZ" -> [rc |-> 0, sample_rate |-> 48000]
      [] code = "88200HZ" -> [rc |-> 0, sample_rate |-> 88200]
      [] code = "96000HZ" -> [rc |-> 0, sample_rate |-> 96000]
      [] code = "176000HZ" -> [rc |-> 0, sample_rate |-> 176400]
      [] code = "192000HZ" -> [rc |-> 0, sample_rate |-> 192000]
      [] OTHER -> [rc |-> AVERROR_EINVAL, sample_rate |-> sample_rate]

get_sample_rate_from_audio_infoframe_and_aes_status(frame, aes, sample_rate) ==
    CASE frame.SamplingFrequency = "32000HZ" -> [rc |-> 0, sample_rate |-> 32000]
      [] frame.SamplingFrequency = "44100HZ" -> [rc |-> 0, sample_rate |-> 44100]
      [] frame.SamplingFrequency = "48000HZ" -> [rc |-> 0, sample_rate |-> 48000]
      [] frame.SamplingFrequency = "88200HZ" -> [rc |-> 0, sample_rate |-> 88200]
      [] frame.SamplingFrequency = "96000HZ" -> [rc |-> 0, sample_rate |-> 96000]
      [] frame.SamplingFrequency = "176400HZ" -> [rc |-> 0, sample_rate |-> 176400]
      [] frame.SamplingFrequency = "192000HZ" -> [rc |-> 0, sample_rate |-> 192000]
      [] frame.SamplingFrequency = "REF_STREAM_HEADER" ->
            AesSampleRate(aes.SamplingFrequency, sample_rate)
      [] OTHER -> [rc |-> AVERROR_EINVAL, sample_rate |-> sample_rate]

\* ChannelCount is written as the channel count the code stands for, and 0 for
\* the code that refers to the stream header.
CHANNEL_COUNT_REF_STREAM_HEADER == 0

get_nb_channels_from_audio_infoframe_and_aes_status(frame, aes, nb_channels) ==
    CASE frame.ChannelCount \in 2..8 -> [rc |-> 0, nb_channels |-> frame.ChannelCount]
      [] frame.ChannelCount = CHANNEL_COUNT_REF_STREAM_HEADER ->
            [rc |-> 0, nb_channels |-> aes.ChannelNb]
      [] OTHER -> [rc |-> AVERROR_EINVAL, nb_channels |-> nb_channels]

\* The codec of the sample sizes FFmpeg has a PCM encoding for, without the
\* place 20-bit samples are given in the 24-bit one: what
\* C30_PcmCodecAndFormat must tell from CodecOfSampleSize.
CodecOfNativeSampleSize(sample_size, codec) ==
    CASE sample_size = 16 -> [rc |-> 0, codec |-> "PCM_S16LE"]
      [] sample_size = 24 -> [rc |-> 0, codec |-> "PCM_S24LE"]
      [] OTHER -> [rc |-> AVERROR_EINVAL, codec |-> codec]

\* The codec a sample size selects; codec is left as it was when none does.
CodecOfSampleSize(sample_size, codec) ==
    CASE sample_size = 16 -> [rc |-> 0, codec |-> "PCM_S16LE"]
      [] sample_size = 24 -> [rc |-> 0, codec |-> "PCM_S24LE"]
      [] sample_size = 20 -> [rc |-> 0, codec |-> "PCM_S24LE"]
      [] OTHER -> [rc |-> AVERROR_EINVAL, codec |-> codec]

\* get_codec_from_audio_infoframe_and_aes_status without the test of the
\* status word: what C17_UnsupportedCodingRefused must tell from it.
get_codec_ignoring_aes_status(frame, aes, codec) ==
    LET sample_size ==
            get_sample_size_from_audio_infoframe_and_aes_status(frame, aes, 0).sample_size
    IN  IF frame.CodingType \in {"PCM", "REF_STREAM_HEADER"}
        THEN CodecOfSampleSize(sample_size, codec)
        ELSE [rc |-> AVERROR_EINVAL, codec |-> codec]

get_codec_from_audio_infoframe_and_aes_status(frame, aes, codec) ==
    LET sample_size ==
            get_sample_size_from_audio_infoframe_and_aes_status(frame, aes, 0).sample_size
    IN  CASE frame.CodingType = "PCM" -> CodecOfSampleSize(sample_size, codec)
          [] frame.CodingType = "REF_STREAM_HEADER" ->
                IF aes.LinearPCM = "LINEAR_PCM_SAMPLE"
                THEN CodecOfSampleSize(sample_size, codec)
                ELSE [rc |-> AVERROR_EINVAL, codec |-> codec]
          [] OTHER -> [rc |-> AVERROR_EINVAL, codec |-> codec]

(***************************************************************************)
(* The session context and the driver's book.                              *)
(***************************************************************************)
\* av_mallocz: every field zero.  Enumeration value 0 of the channel type is
\* AV_VIDEOMASTER_CHANNEL_HDMI, of the codec AV_CODEC_ID_NONE.
ZeroContext ==
    [board_handle |-> NULL, stream_handle |-> NULL, slot_handle |-> NULL,
     board_index |-> 0, channel_index |-> 0, channel_type |-> "HDMI",
     timestamp_source |-> 0, number_of_boards |-> 0, nb_rx_channels |-> 0,
     has_video |-> FALSE, video_frame_rate_den |-> 0, video_codec |-> "NONE",
     return_video_next |-> FALSE,
     has_audio |-> FALSE, audio_codec |-> "NONE", audio_format |-> 0,
     audio_sample_rate |-> 0, audio_nb_channels |-> 0, audio_sample_size |-> 0,
     sub_buffers |-> FALSE, video_stream |-> FALSE, audio_stream |-> FALSE,
     pts |-> 0, video_buffer |-> FALSE, audio_buffer |-> FALSE,
     audio_buffer_size |-> 0]

NoCall == [fn |-> "none", h |-> NULL, res |-> "NOERROR"]
Call(fn, h, res) == [fn |-> fn, h |-> h, res |-> res]

NoDriver == [boards |-> <<>>, streams |-> <<>>, slots |-> <<>>, clk_type |-> "unset"]

\* Handles are numbered in the order the driver hands them out.
DrvOpenBoard(d, st) ==
    IF st = "NOERROR"
    THEN [d EXCEPT !.boards = Append(@, [open |-> TRUE, closes |-> 0])]
    ELSE d

DrvCloseBoard(d, h) ==
    IF h \in DOMAIN d.boards
    THEN [d EXCEPT !.boards[h] = [open |-> FALSE, closes |-> @.closes + 1]]
    ELSE d

DrvOpenStream(d, board, st) ==
    IF st = "NOERROR"
    THEN [d EXCEPT !.streams = Append(@, [board |-> board, open |-> TRUE,
                                          closes |-> 0, started |-> FALSE,
                                          starts |-> 0])]
    ELSE d

DrvCloseStream(d, h) ==
    IF h \in DOMAIN d.streams
    THEN [d EXCEPT !.streams[h].open = FALSE, !.streams[h].closes = @ + 1]
    ELSE d

\* starts counts the VHD_StartStream calls issued on the handle.
DrvStartStream(d, h, st) ==
    IF h \in DOMAIN d.streams
    THEN [d EXCEPT !.streams[h].started = (st = "NOERROR") \/ @,
                   !.streams[h].starts = @ + 1]
    ELSE d

DrvStopStream(d, h) ==
    IF h \in DOMAIN d.streams
    THEN [d EXCEPT !.streams[h].started = FALSE]
    ELSE d

DrvLockSlot(d, stream, st) ==
    IF st = "NOERROR"
    THEN [d EXCEPT !.slots = Append(@, [stream |-> stream, unlocks |-> 0])]
    ELSE d

DrvUnlockSlot(d, h) ==
    IF h \in DOMAIN d.slots
    THEN [d EXCEPT !.slots[h].unlocks = @ + 1]
    ELSE d

\* Slots locked and not yet handed back with an unlock call.
Outstanding(d) == {s \in DOMAIN d.slots : d.slots[s].unlocks = 0}
OpenStreams(d) == {s \in DOMAIN d.streams : d.streams[s].open}
OpenBoards(d) == {b \in DOMAIN d.boards : d.boards[b].open}

(***************************************************************************)
(* Slot lifecycle.                                                         *)
(***************************************************************************)
\* VHD_LockSlotHandle writes the slot handle only when it succeeds.
lock_slot(c, d, st) ==
    [rc |-> handle_vhd_status(st),
     ctx |-> IF st = "NOERROR"
             THEN [c EXCEPT !.slot_handle = Len(d.slots) + 1]
             ELSE c,
     drv |-> DrvLockSlot(d, c.stream_handle, st),
     call |-> Call("VHD_LockSlotHandle", c.stream_handle, st)]

\* unlock_slot without the reset of slot_handle: what C6_ReleaseIdempotent
\* must tell from unlock_slot.
unlock_slot_keeping_handle(c, d, st) ==
    IF c.slot_handle # NULL
    THEN [rc |-> handle_vhd_status(st),
          ctx |-> c,
          drv |-> DrvUnlockSlot(d, c.slot_handle),
          call |-> Call("VHD_UnlockSlotHandle", c.slot_handle, st)]
    ELSE [rc |-> 0, ctx |-> c, drv |-> d, call |-> NoCall]

unlock_slot(c, d, st) ==
    IF c.slot_handle # NULL
    THEN [rc |-> handle_vhd_status(st),
          ctx |-> [c EXCEPT !.slot_handle = NULL],
          drv |-> DrvUnlockSlot(d, c.slot_handle),
          call |-> Call("VHD_UnlockSlotHandle", c.slot_handle, st)]
    ELSE [rc |-> 0, ctx |-> c, drv |-> d, call |-> NoCall]

ff_videomaster_release_data(c, d, st) ==
    unlock_slot([c EXCEPT !.audio_buffer = FALSE, !.audio_buffer_size = 0], d, st)

\* ff_videomaster_close_stream_handle that only forgets the handle: what
\* C9_HeaderErrorCleanup must tell from ff_videomaster_close_stream_handle.
close_stream_handle_forgetting(c, d, st) ==
    [rc |-> 0, ctx |-> [c EXCEPT !.stream_handle = NULL], drv |-> d,
     call |-> NoCall]

ff_videomaster_close_stream_handle(c, d, st) ==
    [rc |-> handle_vhd_status(st),
     ctx |-> [c EXCEPT !.stream_handle = NULL],
     drv |-> DrvCloseStream(d, c.stream_handle),
     call |-> Call("VHD_CloseStreamHandle", c.stream_handle, st)]

ff_videomaster_close_board_handle(c, d, st) ==
    [rc |-> handle_vhd_status(st),
     ctx |-> [c EXCEPT !.board_handle = NULL],
     drv |-> DrvCloseBoard(d, c.board_handle),
     call |-> Call("VHD_CloseBoardHandle", c.board_handle, st)]

\* release_audio_info frees the SDI sub-buffers of a context that has audio.
release_audio_info(c) ==
    IF c.has_audio /\ c.channel_type \in {"SDI", "ASISDI"}
    THEN [c EXCEPT !.sub_buffers = FALSE]
    ELSE c

ff_videomaster_stop_stream(c, d, st) ==
    [rc |-> handle_vhd_status(st),
     ctx |-> release_audio_info(c),
     drv |-> DrvStopStream(d, c.stream_handle),
     call |-> Call("VHD_StopStream", c.stream_handle, st)]

(***************************************************************************)
(* Inputs of a session.                                                    *)
(***************************************************************************)
TimestampSources ==
    {AV_VIDEOMASTER_TIMESTAMP_OSCILLATOR, AV_VIDEOMASTER_TIMESTAMP_SYSTEM,
     AV_VIDEOMASTER_TIMESTAMP_HARDWARE}
IndexOptions == {-1, 0, 1}

\* The audio options: the defaults of the option table, and 2 channels at
\* 48 kHz in 16 and in 24 bits, and with the sample rate left unknown.
Audio(nb_channels, sample_rate, sample_size) ==
    [nb_channels |-> nb_channels, sample_rate |-> sample_rate,
     sample_size |-> sample_size]
DefaultAudio ==
    Audio(-1, AV_VIDEOMASTER_SAMPLE_RATE_UNKNOWN, AV_VIDEOMASTER_SAMPLE_SIZE_UNKNOWN)
AudioOptions ==
    {DefaultAudio, Audio(2, 48000, 16), Audio(2, 48000, 24),
     Audio(2, AV_VIDEOMASTER_SAMPLE_RATE_UNKNOWN, 16),
     Audio(-1, 48000, 16), Audio(2, 48000, 20)}

Data(url, board_index, channel_index, timestamp_source, audio) ==
    [url |-> url, board_index |-> board_index, channel_index |-> channel_index,
     timestamp_source |-> timestamp_source, nb_channels |-> audio.nb_channels,
     sample_rate |-> audio.sample_rate, sample_size |-> audio.sample_size]

\* url "dummy" takes the indices from the options, "named" is a source name
\* "stream %d on board %d" that carries them, "unknown" is any other url.
\* An option outside its range is refused before read_header runs.
DataSet ==
    {Data("dummy", b, c, AV_VIDEOMASTER_TIMESTAMP_OSCILLATOR, DefaultAudio) :
        b \in IndexOptions, c \in IndexOptions}
    \cup {Data("dummy", 0, 0, t, DefaultAudio) : t \in TimestampSources}
    \cup {Data("dummy", 0, 0, AV_VIDEOMASTER_TIMESTAMP_OSCILLATOR, a) :
             a \in AudioOptions}
    \cup {Data("named", 0, 0, AV_VIDEOMASTER_TIMESTAMP_OSCILLATOR, DefaultAudio),
          Data("named", 1, 0, AV_VIDEOMASTER_TIMESTAMP_OSCILLATOR, DefaultAudio),
          Data("unknown", -1, -1, AV_VIDEOMASTER_TIMESTAMP_OSCILLATOR, DefaultAudio)}

NoData == CHOOSE d \in DataSet : d.url = "unknown"

\* Channel codes a session is run on: one of each class.
SessionChannelCodes == {"HDMI_TMDS", "12GSDI", "3GSDI_ASI", "DISPLAYPORT"}
BoardCounts == {0, 1}
RxChannelCounts == {1}
ClockDivisors == {"VHD_CLOCKDIV_1", "VHD_CLOCKDIV_1001", "OTHER"}

\* Info-frame / AES status pairs the driver reports for a slot.
Frame(type, coding, size, freq, count) ==
    [audio_type |-> type, CodingType |-> coding, SampleSize |-> size,
     SamplingFrequency |-> freq, ChannelCount |-> count]
Aes(pcm, word, freq, nb) ==
    [LinearPCM |-> pcm, MaxWordLengthSize |-> word, SamplingFrequency |-> freq,
     ChannelNb |-> nb]
AesPcm == Aes("LINEAR_PCM_SAMPLE", "24BITS", "48000HZ", 2)
AesOther == Aes("OTHER", "24BITS", "48000HZ", 2)
FramePairs ==
    {[frame |-> Frame("NONE", "PCM", "16_BITS", "48000HZ", 2), aes |-> AesPcm],
     [frame |-> Frame("PCM", "PCM", "16_BITS", "48000HZ", 2), aes |-> AesPcm],
     [frame |-> Frame("PCM", "PCM", "20_BITS", "48000HZ", 2), aes |-> AesOther],
     [frame |-> Frame("PCM", "REF_STREAM_HEADER", "REF_STREAM_HEADER",
                      "REF_STREAM_HEADER", CHANNEL_COUNT_REF_STREAM_HEADER),
      aes |-> AesPcm],
     [frame |-> Frame("PCM", "REF_STREAM_HEADER", "REF_STREAM_HEADER",
                      "REF_STREAM_HEADER", CHANNEL_COUNT_REF_STREAM_HEADER),
      aes |-> AesOther],
     [frame |-> Frame("PCM", "AC3", "16_BITS", "48000HZ", 2), aes |-> AesOther],
     [frame |-> Frame("PCM", "PCM", "OTHER", "48000HZ", 2), aes |-> AesPcm]}

NoHardware ==
    [chn_code |-> "NB_VHD_CHANNELTYPE", clock_divisor |-> "unread",
     timestamp_cap |-> "unread", audio_type |-> "unread",
     coding_type |-> "unread", linear_pcm |-> "unread"]
NoPacket == [kind |-> "none", pts |-> 0]
NoReturn == [op |-> "none", rc |-> 0]
NoUnwind == [again |-> FALSE, rc |-> 0]
NoProbeReturn == [rc |-> 0, final |-> FALSE]
NoGetData == [lock_slot_status |-> 0, rc |-> 0, failed |-> "none"]
NoLocals == [channel_index |-> 0, av_error |-> 0]

Init ==
    /\ pc = "start"
    /\ data = NoData
    /\ ctx = ZeroContext
    /\ lctx = ZeroContext
    /\ prc = NoProbeReturn
    /\ hse = NoUnwind
    /\ hw = NoHardware
    /\ drv = NoDriver
    /\ call = NoCall
    /\ ret = NoReturn
    /\ get_data = NoGetData
    /\ return_code = 0
    /\ released = FALSE
    /\ pkt = NoPacket
    /\ system_ts_base = 0
    /\ reads = 0
    /\ faults = 0
    /\ stamps = <<>>
    /\ session = 1
    /\ rx = <<>>
    /\ device_list = <<>>
    /\ locals = NoLocals
    /\ audio_info = <<>>
    /\ audio_bytes = <<>>

(***************************************************************************)
(* ff_videomaster_read_header                                              *)
(***************************************************************************)
Returns(op, rc) == ret' = [op |-> op, rc |-> rc]
Fault(n) == faults + n <= MaxFaults /\ faults' = faults + n

parse_command_line_arguments(c, d) ==
    LET indexed == [c EXCEPT !.board_index = d.board_index,
                             !.channel_index = d.channel_index]
        sourced == [indexed EXCEPT !.timestamp_source = d.timestamp_source]
        audio == [sourced EXCEPT !.audio_nb_channels = d.nb_channels,
                                 !.audio_sample_rate = d.sample_rate,
                                 !.audio_sample_size = d.sample_size]
        codec == CASE d.sample_size = 16 -> [audio EXCEPT !.audio_codec = "PCM_S16LE"]
                   [] d.sample_size = 24 -> [audio EXCEPT !.audio_codec = "PCM_S24LE"]
                   [] OTHER -> audio
    IN  CASE d.url = "dummy" /\ d.board_index = -1 -> [rc |-> AVERROR_EINVAL, ctx |-> c]
          [] d.url = "dummy" /\ d.board_index # -1 /\ d.channel_index = -1 ->
                [rc |-> AVERROR_EINVAL, ctx |-> c]
          [] d.url = "unknown" -> [rc |-> AVERROR_EINVAL, ctx |-> c]
          [] d.url # "unknown" /\ ~(d.url = "dummy" /\ -1 \in {d.board_index, d.channel_index})
               /\ d.timestamp_source \notin TimestampSources ->
                [rc |-> AVERROR_EINVAL, ctx |-> indexed]
          [] OTHER -> [rc |-> 0, ctx |-> codec]

\* read_header up to parse_command_line_arguments: the context is allocated
\* by ff_videomaster_extract_context and the options are copied into it.
ReadHeaderParse ==
    /\ pc = "start"
    /\ \E d \in DataSet, code \in SessionChannelCodes, allocated \in BOOLEAN :
          LET parsed == parse_command_line_arguments(ZeroContext, d) IN
          /\ Fault(Lost(allocated))
          /\ data' = d
          /\ hw' = [NoHardware EXCEPT !.chn_code = code]
          /\ IF ~allocated
             THEN /\ ctx' = ctx
                  /\ Returns("read_header", AVERROR_EINVAL)
                  /\ pc' = "failed"
             ELSE /\ ctx' = parsed.ctx
                  /\ IF parsed.rc # 0
                     THEN Returns("read_header", AVERROR_EINVAL) /\ pc' = "failed"
                     ELSE ret' = ret /\ pc' = "hdr_api"
    /\ call' = NoCall
    /\ released' = FALSE
    /\ UNCHANGED <<rx, device_list, locals, stamps, session, lctx, prc, hse, drv, get_data, return_code, pkt, system_ts_base, reads,
                   audio_info, audio_bytes>>

ff_videomaster_get_api_info(c, st, boards) ==
    IF handle_vhd_status(st) = 0
    THEN [rc |-> 0, ctx |-> [c EXCEPT !.number_of_boards = boards]]
    ELSE [rc |-> AVERROR_EIO, ctx |-> c]

ReadHeaderApiInfo ==
    /\ pc = "hdr_api"
    /\ \E st \in VhdOkErr, boards \in BoardCounts :
          LET got == ff_videomaster_get_api_info(ctx, st, boards) IN
          /\ Fault(Cost(st))
          /\ ctx' = got.ctx
          /\ IF got.rc # 0
             THEN Returns("read_header", AVERROR_EIO) /\ pc' = "failed"
             ELSE ret' = ret /\ pc' = "hdr_board"
    /\ call' = NoCall
    /\ UNCHANGED <<rx, device_list, locals, stamps, session, data, lctx, prc, hse, hw, drv, get_data, return_code, released, pkt,
                   system_ts_base, reads,
                   audio_info, audio_bytes>>

ff_videomaster_open_board_handle(c, d, st) ==
    [rc |-> handle_vhd_status(st),
     ctx |-> IF st = "NOERROR"
             THEN [c EXCEPT !.board_handle = Len(d.boards) + 1]
             ELSE c,
     drv |-> DrvOpenBoard(d, st),
     call |-> Call("VHD_OpenBoardHandle", c.board_index, st)]

\* check_board_index, and check_header_arguments mapping its failure to EIO.
CheckBoardIndex ==
    /\ pc = "hdr_board"
    /\ IF ctx.number_of_boards = 0 \/ ctx.board_index >= ctx.number_of_boards
       THEN /\ Returns("read_header", AVERROR_EIO)
            /\ pc' = "failed"
            /\ call' = NoCall
            /\ UNCHANGED <<ctx, drv, faults>>
       ELSE \E st \in VhdOkErr :
               LET opened == ff_videomaster_open_board_handle(ctx, drv, st) IN
               /\ Fault(Cost(st))
               /\ ctx' = opened.ctx
               /\ drv' = opened.drv
               /\ call' = opened.call
               /\ IF opened.rc # 0
                  THEN Returns("read_header", AVERROR_EIO) /\ pc' = "failed"
                  ELSE ret' = ret /\ pc' = "hdr_channel"
    /\ UNCHANGED <<rx, device_list, locals, stamps, session, data, lctx, prc, hse, hw, get_data, return_code, released, pkt,
                   system_ts_base, reads,
                   audio_info, audio_bytes>>

\* check_audio_properties only logs.  check_channel_index up to the lock
\* test of the channel; its failures make check_header_arguments close the
\* board handle and return EIO.
CheckChannelIndex ==
    /\ pc = "hdr_channel"
    /\ \E st \in VhdOkErr, channels \in RxChannelCounts, locked \in BOOLEAN :
          LET cleared == [ctx EXCEPT !.has_video = FALSE, !.has_audio = FALSE] IN
          /\ Fault(Cost(st))
          /\ locked \/ st = "NOERROR"
          /\ IF handle_vhd_status(st) # 0
             THEN /\ ctx' = cleared
                  /\ hse' = [again |-> FALSE, rc |-> AVERROR_EIO]
                  /\ pc' = "hdr_close_board"
             ELSE /\ ctx' = [cleared EXCEPT !.nb_rx_channels = channels]
                  /\ IF ctx.channel_index >= channels
                     THEN /\ hse' = [again |-> FALSE, rc |-> AVERROR_EIO]
                          /\ pc' = "hdr_close_board"
                     ELSE /\ hse' = hse
                          /\ pc' = IF locked THEN "hdr_video" ELSE "hdr_ts"
    /\ call' = NoCall
    /\ UNCHANGED <<rx, device_list, locals, stamps, session, data, lctx, prc, hw, drv, ret, get_data, return_code,
                   released, pkt, system_ts_base, reads,
                   audio_info, audio_bytes>>

\* The denominator with both known divisors taken for the integer one: what
\* C33_SdiVideoResolution must tell from SdiFrameRateDen.
SdiFrameRateDenInteger(divisor, den) ==
    IF divisor \in {"VHD_CLOCKDIV_1", "VHD_CLOCKDIV_1001"} THEN 1000 ELSE den

\* Denominator ff_videomaster_get_video_stream_properties leaves for an SDI
\* clock divisor: no other divisor is assigned one.
SdiFrameRateDen(divisor, den) ==
    CASE divisor = "VHD_CLOCKDIV_1" -> 1000
      [] divisor = "VHD_CLOCKDIV_1001" -> 1001
      [] OTHER -> den

\* total_width * total_height of the HDMI signal (2200 x 1125).
HdmiTotalPixels == 2475000

\* ff_videomaster_get_video_stream_properties called without a stream handle:
\* classification, and for HDMI the opening of the transient handle.
VideoProperties ==
    /\ pc = "hdr_video"
    /\ \E st_type \in VhdOkErr :
          LET type == ff_videomaster_get_channel_type_from_index(hw.chn_code, st_type) IN
          IF type = "HDMI"
          THEN \E st \in VhdOkErr :
                  /\ Fault(Cost(st_type) + Cost(st))
                  /\ ctx' = [ctx EXCEPT !.channel_type = type]
                  /\ lctx' = [lctx EXCEPT !.stream_handle =
                                 IF st = "NOERROR" THEN Len(drv.streams) + 1 ELSE NULL]
                  /\ drv' = DrvOpenStream(drv, ctx.board_handle, st)
                  /\ call' = Call("VHD_OpenStreamHandle", ctx.board_handle, st)
                  /\ pc' = "hdr_video_close"
                  /\ hw' = hw
          ELSE \E divisor \in ClockDivisors :
                  /\ Fault(Cost(st_type))
                  /\ hw' = [hw EXCEPT !.clock_divisor = divisor]
                  /\ ctx' = [ctx EXCEPT !.channel_type = type,
                                        !.video_frame_rate_den =
                                            SdiFrameRateDen(divisor, @),
                                        !.has_video = TRUE]
                  /\ call' = NoCall
                  /\ pc' = "hdr_open_stream"
                  /\ UNCHANGED <<lctx, drv>>
    /\ UNCHANGED <<rx, device_list, locals, stamps, session, data, prc, hse, ret, get_data, return_code, released, pkt,
                   system_ts_base, reads,
                   audio_info, audio_bytes>>

\* The transient handle is closed, whether or not it was opened; the function
\* returns 0 and check_channel_index sets has_video.
VideoPropertiesClose ==
    /\ pc = "hdr_video_close"
    /\ \E st \in StatusOn(lctx.stream_handle, VhdOkErr) :
          /\ Fault(CostOn(lctx.stream_handle, st))
          /\ drv' = DrvCloseStream(drv, lctx.stream_handle)
          /\ call' = Call("VHD_CloseStreamHandle", lctx.stream_handle, st)
    /\ lctx' = [lctx EXCEPT !.stream_handle = NULL]
    /\ ctx' = [ctx EXCEPT !.video_frame_rate_den = HdmiTotalPixels,
                          !.has_video = TRUE]
    /\ pc' = "hdr_open_stream"
    /\ UNCHANGED <<rx, device_list, locals, stamps, session, data, prc, hse, hw, ret, get_data, return_code, released,
                   pkt, system_ts_base, reads,
                   audio_info, audio_bytes>>

ff_videomaster_open_stream_handle(c, d, st) ==
    [rc |-> handle_vhd_status(st),
     ctx |-> IF st = "NOERROR"
             THEN [c EXCEPT !.stream_handle = Len(d.streams) + 1]
             ELSE c,
     drv |-> DrvOpenStream(d, c.board_handle, st),
     call |-> Call("VHD_OpenStreamHandle", c.board_handle, st)]

OpenStreamHandle ==
    /\ pc = "hdr_open_stream"
    /\ \E st \in VhdOkErr :
          LET opened == ff_videomaster_open_stream_handle(ctx, drv, st) IN
          /\ Fault(Cost(st))
          /\ ctx' = opened.ctx
          /\ drv' = opened.drv
          /\ call' = opened.call
          /\ IF opened.rc # 0
             THEN hse' = [again |-> FALSE, rc |-> AVERROR_EIO] /\ pc' = "hdr_close_board"
             ELSE hse' = hse /\ pc' = "hdr_audio"
    /\ UNCHANGED <<rx, device_list, locals, stamps, session, data, lctx, prc, hw, ret, get_data, return_code, released,
                   pkt, system_ts_base, reads,
                   audio_info, audio_bytes>>

(***************************************************************************)
(* Stream start, and the HDMI audio probe of read_header.                  *)
(***************************************************************************)
get_videomaster_enumeration_value_for_timestamp_source(type) ==
    CASE type = AV_VIDEOMASTER_TIMESTAMP_OSCILLATOR -> "VHD_ST_CLK_TYPE_MONOTONIC_RAW"
      [] type = AV_VIDEOMASTER_TIMESTAMP_SYSTEM -> "VHD_ST_CLK_TYPE_REALTIME"
      [] OTHER -> "-1"

\* in.padded: VHD_CORE_SP_LINE_PADDING is a property of the stream.
\* in.st_timeout, in.st_clk and in.st_start are the statuses of the IO
\* time-out property, of the system time clock type property and of
\* VHD_StartStream.
ff_videomaster_start_stream(c, d, in) ==
    LET audio == IF c.channel_type # "HDMI" /\ c.has_audio
                 THEN [c EXCEPT !.sub_buffers = TRUE]
                 ELSE c
        packed == [audio EXCEPT !.video_codec =
                                    IF in.padded THEN "V210" ELSE "RAWVIDEO"]
        clocked == c.timestamp_source < AV_VIDEOMASTER_TIMESTAMP_HARDWARE
        typed == IF clocked
                 THEN [d EXCEPT !.clk_type =
                          get_videomaster_enumeration_value_for_timestamp_source(
                              c.timestamp_source)]
                 ELSE d
    IN  CASE handle_vhd_status(in.st_timeout) # 0 ->
                [rc |-> handle_vhd_status(in.st_timeout), ctx |-> packed,
                 drv |-> d, call |-> NoCall]
          [] handle_vhd_status(in.st_timeout) = 0 /\ clocked
               /\ handle_vhd_status(in.st_clk) # 0 ->
                [rc |-> handle_vhd_status(in.st_clk), ctx |-> packed, drv |-> d,
                 call |-> NoCall]
          [] OTHER ->
                [rc |-> handle_vhd_status(in.st_start), ctx |-> packed,
                 drv |-> DrvStartStream(typed, c.stream_handle, in.st_start),
                 call |-> Call("VHD_StartStream", c.stream_handle, in.st_start)]

\* The answers that make a difference to ff_videomaster_start_stream of c: no
\* status is drawn for a call that is not reached.
StartInputs(c) ==
    {in \in [padded : BOOLEAN, st_timeout : VhdOkErr, st_clk : VhdOkErr,
             st_start : VhdOkErr] :
        /\ in.st_timeout = "ERROR" => in.st_clk = "NOERROR" /\ in.st_start = "NOERROR"
        /\ in.st_clk = "ERROR" =>
              /\ in.st_start = "NOERROR"
              /\ c.timestamp_source < AV_VIDEOMASTER_TIMESTAMP_HARDWARE}
StartCost(in) == Cost(in.st_timeout) + Cost(in.st_clk) + Cost(in.st_start)

\* has_audio as check_channel_index decides it once the audio properties
\* were retrieved.
DetectedAudio(c) ==
    IF c.channel_type = "HDMI"
    THEN c.audio_sample_size # 0 /\ c.audio_nb_channels # 0
    ELSE /\ c.audio_sample_size # AV_VIDEOMASTER_SAMPLE_SIZE_UNKNOWN
         /\ c.audio_sample_rate # AV_VIDEOMASTER_SAMPLE_RATE_UNKNOWN
         /\ c.audio_nb_channels # 0

\* ff_videomaster_get_audio_stream_properties on the session's stream handle.
\* For an HDMI channel get_audio_stream_properties_from_audio_infoframe builds
\* its local context, reads the video properties into it and resets the
\* caller's audio_info and codec; any other channel has nothing to retrieve.
AudioProperties ==
    /\ pc = "hdr_audio"
    /\ \E st_type \in VhdOkErr :
          LET type == ff_videomaster_get_channel_type_from_index(hw.chn_code, st_type)
              typed == [ctx EXCEPT !.channel_type = type]
          IN  IF type = "HDMI"
              THEN \E st_local \in VhdOkErr :
                      /\ Fault(Cost(st_type) + Cost(st_local))
                      /\ lctx' = [ZeroContext EXCEPT
                                    !.board_handle = ctx.board_handle,
                                    !.stream_handle = ctx.stream_handle,
                                    !.channel_index = ctx.channel_index,
                                    !.channel_type =
                                        ff_videomaster_get_channel_type_from_index(
                                            hw.chn_code, st_local)]
                      /\ ctx' = [typed EXCEPT !.audio_format = 0,
                                              !.audio_codec = "NONE"]
                      /\ pc' = "probe_start"
              ELSE /\ Fault(Cost(st_type))
                   /\ lctx' = lctx
                   /\ ctx' = [typed EXCEPT !.has_audio = DetectedAudio(typed)]
                   /\ pc' = "hdr_ts"
    /\ call' = NoCall
    /\ UNCHANGED <<rx, device_list, locals, stamps, session, data, prc, hse, hw, drv, ret, get_data, return_code,
                   released, pkt, system_ts_base, reads,
                   audio_info, audio_bytes>>

\* GET_AND_CHECK(ff_videomaster_start_stream): a failure returns at once, the
\* local context is gone, and check_channel_index only warns.
ProbeStart ==
    /\ pc = "probe_start"
    /\ \E in \in StartInputs(lctx) :
          LET started == ff_videomaster_start_stream(lctx, drv, in) IN
          /\ Fault(StartCost(in))
          /\ lctx' = IF started.rc # 0 THEN ZeroContext ELSE started.ctx
          /\ drv' = started.drv
          /\ call' = started.call
          /\ pc' = IF started.rc # 0 THEN "hdr_ts" ELSE "probe_lock"
    /\ UNCHANGED <<rx, device_list, locals, stamps, session, data, ctx, prc, hse, hw, ret, get_data, return_code,
                   released, pkt, system_ts_base, reads,
                   audio_info, audio_bytes>>

\* GET_AND_CHECK_AND_STOP_STREAM(lock_slot).
ProbeLock ==
    /\ pc = "probe_lock"
    /\ \E st \in VhdStatus :
          LET locked == lock_slot(lctx, drv, st) IN
          /\ Fault(Cost(st))
          /\ lctx' = locked.ctx
          /\ drv' = locked.drv
          /\ call' = locked.call
          /\ IF locked.rc # 0
             THEN prc' = [rc |-> locked.rc, final |-> TRUE] /\ pc' = "probe_stop"
             ELSE prc' = prc /\ pc' = "probe_info"
    /\ UNCHANGED <<rx, device_list, locals, stamps, session, data, ctx, hse, hw, ret, get_data, return_code, released,
                   pkt, system_ts_base, reads,
                   audio_info, audio_bytes>>

\* The outputs of the four decoding tables, written in the order sample
\* size, sample rate, channels, codec, up to the first table that fails.
DecodedAudio(c, frame, aes) ==
    LET size == get_sample_size_from_audio_infoframe_and_aes_status(
                    frame, aes, c.audio_sample_size)
        rate == get_sample_rate_from_audio_infoframe_and_aes_status(
                    frame, aes, c.audio_sample_rate)
        channels == get_nb_channels_from_audio_infoframe_and_aes_status(
                        frame, aes, c.audio_nb_channels)
        codec == get_codec_from_audio_infoframe_and_aes_status(
                     frame, aes, c.audio_codec)
        sized == [c EXCEPT !.audio_sample_size = size.sample_size]
        rated == [sized EXCEPT !.audio_sample_rate = rate.sample_rate]
        counted == [rated EXCEPT !.audio_nb_channels = channels.nb_channels]
        coded == [counted EXCEPT !.audio_codec = codec.codec]
        format == CASE size.sample_size = 16 -> 16
                    [] size.sample_size \in {20, 24} -> 24
                    [] OTHER -> c.audio_format
    IN  CASE size.rc # 0 -> [rc |-> size.rc, ctx |-> sized]
          [] size.rc = 0 /\ rate.rc # 0 -> [rc |-> rate.rc, ctx |-> rated]
          [] size.rc = 0 /\ rate.rc = 0 /\ channels.rc # 0 ->
                [rc |-> channels.rc, ctx |-> counted]
          [] size.rc = 0 /\ rate.rc = 0 /\ channels.rc = 0 /\ codec.rc # 0 ->
                [rc |-> codec.rc, ctx |-> coded]
          [] OTHER -> [rc |-> 0, ctx |-> [coded EXCEPT !.audio_format = format]]

\* VHD_GetSlotDvAudioInfo and the decoding tables.  Every early return goes
\* through ff_videomaster_stop_stream and nothing else.
ProbeInfo ==
    /\ pc = "probe_info"
    /\ \/ /\ Fault(1)
          /\ prc' = [rc |-> handle_vhd_status("ERROR"), final |-> TRUE]
          /\ pc' = "probe_stop"
          /\ UNCHANGED <<ctx, hw>>
       \/ \E pair \in FramePairs :
             LET decoded == DecodedAudio(ctx, pair.frame, pair.aes) IN
             /\ Fault(0)
             /\ IF pair.frame.audio_type = "NONE"
                THEN /\ prc' = [rc |-> 0, final |-> TRUE]
                     /\ pc' = "probe_stop"
                     /\ hw' = [hw EXCEPT !.audio_type = "NONE"]
                     /\ ctx' = ctx
                ELSE /\ ctx' = decoded.ctx
                     /\ hw' = [hw EXCEPT !.audio_type = pair.frame.audio_type,
                                         !.coding_type = pair.frame.CodingType,
                                         !.linear_pcm = pair.aes.LinearPCM]
                     /\ IF decoded.rc # 0
                        THEN /\ prc' = [rc |-> decoded.rc, final |-> TRUE]
                             /\ pc' = "probe_stop"
                        ELSE /\ prc' = prc
                             /\ pc' = "probe_unlock"
    /\ call' = NoCall
    /\ UNCHANGED <<rx, device_list, locals, stamps, session, data, lctx, hse, drv, ret, get_data, return_code, released,
                   pkt, system_ts_base, reads,
                   audio_info, audio_bytes>>

\* GET_AND_CHECK_AND_STOP_STREAM(unlock_slot).
ProbeUnlock ==
    /\ pc = "probe_unlock"
    /\ \E st \in VhdOkErr :
          LET unlocked == unlock_slot(lctx, drv, st) IN
          /\ Fault(Cost(st))
          /\ lctx' = unlocked.ctx
          /\ drv' = unlocked.drv
          /\ call' = unlocked.call
          /\ prc' = [rc |-> unlocked.rc, final |-> unlocked.rc # 0]
    /\ pc' = "probe_stop"
    /\ UNCHANGED <<rx, device_list, locals, stamps, session, data, ctx, hse, hw, ret, get_data, return_code, released,
                   pkt, system_ts_base, reads,
                   audio_info, audio_bytes>>

\* ff_videomaster_stop_stream of the probe: the one of an early return, whose
\* result is dropped, or the final GET_AND_CHECK one.  Then the probe returns,
\* its local context is gone, and check_channel_index decides has_audio.
ProbeStop ==
    /\ pc = "probe_stop"
    /\ \E st \in VhdOkErr :
          LET stopped == ff_videomaster_stop_stream(lctx, drv, st)
              av_error == IF prc.final THEN prc.rc ELSE stopped.rc
          IN  /\ Fault(Cost(st))
              /\ lctx' = ZeroContext
              /\ drv' = stopped.drv
              /\ call' = stopped.call
              /\ ctx' = IF av_error = 0
                        THEN [ctx EXCEPT !.has_audio = DetectedAudio(ctx)]
                        ELSE ctx
    /\ prc' = NoProbeReturn
    /\ pc' = "hdr_ts"
    /\ UNCHANGED <<rx, device_list, locals, stamps, session, data, hse, hw, ret, get_data, return_code, released, pkt,
                   system_ts_base, reads,
                   audio_info, audio_bytes>>

(***************************************************************************)
(* read_header after check_channel_index.                                  *)
(***************************************************************************)
\* check_timestamp_source; its failure makes check_header_arguments close
\* the stream handle and the board handle.  supported is the board capability
\* VHD_CORE_BOARD_CAP_TIMESTAMP.
CheckTimestampSource ==
    /\ pc = "hdr_ts"
    /\ IF ctx.timestamp_source = AV_VIDEOMASTER_TIMESTAMP_HARDWARE
       THEN \E supported \in BOOLEAN :
               /\ hw' = [hw EXCEPT !.timestamp_cap =
                                        IF supported THEN "supported"
                                                     ELSE "unsupported"]
               /\ IF ctx.board_handle # NULL /\ supported
                  THEN /\ hse' = hse
                       /\ pc' = IF ctx.has_video \/ ctx.has_audio
                                THEN "hdr_start"
                                ELSE "hdr_setup"
                  ELSE /\ hse' = [again |-> FALSE, rc |-> AVERROR_EIO]
                       /\ pc' = "hdr_close_stream"
       ELSE /\ pc' = IF ctx.has_video \/ ctx.has_audio
                     THEN "hdr_start"
                     ELSE "hdr_setup"
            /\ UNCHANGED <<hse, hw>>
    /\ call' = NoCall
    /\ UNCHANGED <<rx, device_list, locals, stamps, session, data, ctx, lctx, prc, drv, ret, get_data, return_code,
                   released, pkt, system_ts_base, reads, faults,
                   audio_info, audio_bytes>>

\* ff_videomaster_start_stream of the session; handle_stream_error on failure.
HeaderStartStream ==
    /\ pc = "hdr_start"
    /\ \E in \in StartInputs(ctx) :
          LET started == ff_videomaster_start_stream(ctx, drv, in) IN
          /\ Fault(StartCost(in))
          /\ ctx' = started.ctx
          /\ drv' = started.drv
          /\ call' = started.call
          /\ IF started.rc # 0
             THEN hse' = [again |-> FALSE, rc |-> AVERROR_EIO] /\ pc' = "hdr_close_stream"
             ELSE hse' = hse /\ pc' = "hdr_setup"
    /\ UNCHANGED <<rx, device_list, locals, stamps, session, data, lctx, prc, hw, ret, get_data, return_code, released,
                   pkt, system_ts_base, reads,
                   audio_info, audio_bytes>>

\* setup_video_stream then setup_audio_stream; video_created and
\* audio_created tell whether avformat_new_stream returned a stream.
setup_streams(c, video_created, audio_created) ==
    LET video == [c EXCEPT !.video_stream = TRUE]
        audio == [video EXCEPT !.audio_stream = TRUE]
    IN  CASE c.has_video /\ ~video_created -> [rc |-> AVERROR_ENOMEM, ctx |-> c]
          [] c.has_video /\ video_created /\ c.has_audio /\ ~audio_created ->
                [rc |-> AVERROR_ENOMEM, ctx |-> video]
          [] c.has_video /\ video_created /\ c.has_audio /\ audio_created ->
                [rc |-> 0, ctx |-> audio]
          [] c.has_video /\ video_created /\ ~c.has_audio -> [rc |-> 0, ctx |-> video]
          [] ~c.has_video /\ c.has_audio /\ ~audio_created ->
                [rc |-> AVERROR_ENOMEM, ctx |-> c]
          [] ~c.has_video /\ c.has_audio /\ audio_created ->
                [rc |-> 0, ctx |-> [c EXCEPT !.audio_stream = TRUE]]
          [] OTHER -> [rc |-> 0, ctx |-> c]

\* A failure of setup_streams runs handle_stream_error inside setup_streams
\* and once more in read_header.  No stream is drawn as missing unless
\* avformat_new_stream is called for it.
SetupStreams ==
    /\ pc = "hdr_setup"
    /\ \E video_created \in BOOLEAN, audio_created \in BOOLEAN :
          LET set == setup_streams(ctx, video_created, audio_created) IN
          /\ video_created \/ ctx.has_video
          /\ audio_created \/ (ctx.has_audio /\ video_created)
          /\ Fault(Lost(video_created) + Lost(audio_created))
          /\ IF set.rc # 0
             THEN /\ ctx' = set.ctx
                  /\ hse' = [again |-> TRUE, rc |-> AVERROR_EIO]
                  /\ pc' = "hdr_close_stream"
                  /\ ret' = ret
             ELSE /\ ctx' = [set.ctx EXCEPT !.return_video_next = TRUE]
                  /\ hse' = hse
                  /\ pc' = "idle"
                  /\ Returns("read_header", 0)
    /\ call' = NoCall
    /\ UNCHANGED <<rx, device_list, locals, stamps, session, data, lctx, prc, hw, drv, get_data, return_code, released,
                   pkt, system_ts_base, reads,
                   audio_info, audio_bytes>>

\* ff_videomaster_close_stream_handle of handle_stream_error and of
\* check_header_arguments.
HeaderCloseStream ==
    /\ pc = "hdr_close_stream"
    /\ \E st \in StatusOn(ctx.stream_handle, VhdOkErr) :
          LET closed == ff_videomaster_close_stream_handle(ctx, drv, st) IN
          /\ Fault(CostOn(ctx.stream_handle, st))
          /\ ctx' = closed.ctx
          /\ drv' = closed.drv
          /\ call' = closed.call
    /\ pc' = "hdr_close_board"
    /\ UNCHANGED <<rx, device_list, locals, stamps, session, data, lctx, prc, hse, hw, ret, get_data, return_code,
                   released, pkt, system_ts_base, reads,
                   audio_info, audio_bytes>>

\* ff_videomaster_close_board_handle which ends every failure path of
\* read_header that opened the board; read_header then returns.
HeaderCloseBoard ==
    /\ pc = "hdr_close_board"
    /\ \E st \in StatusOn(ctx.board_handle, VhdOkErr) :
          LET closed == ff_videomaster_close_board_handle(ctx, drv, st) IN
          /\ Fault(CostOn(ctx.board_handle, st))
          /\ ctx' = closed.ctx
          /\ drv' = closed.drv
          /\ call' = closed.call
    /\ IF hse.again
       THEN /\ hse' = [hse EXCEPT !.again = FALSE]
            /\ pc' = "hdr_close_stream"
            /\ ret' = ret
       ELSE /\ hse' = NoUnwind
            /\ pc' = "failed"
            /\ Returns("read_header", hse.rc)
    /\ UNCHANGED <<rx, device_list, locals, stamps, session, data, lctx, prc, hw, get_data, return_code, released, pkt,
                   system_ts_base, reads,
                   audio_info, audio_bytes>>

(***************************************************************************)
(* ff_videomaster_read_packet                                              *)
(***************************************************************************)
\* Inputs of one fetch: what the driver and the allocator answer.
AudioSizes == {0, 4}
SampleCounts == {0, 1}
ClockFrequencies == {1000000}
RawTimes == 0..MaxTime

\* A fetch that resolved the frame rate of the video again: what
\* C34_SchemaFixedWhileReading must tell from get_video_buffer.
get_video_buffer_resolving(c, st) ==
    [rc |-> handle_vhd_status(st),
     ctx |-> IF st = "NOERROR"
             THEN [c EXCEPT !.video_buffer = TRUE, !.video_frame_rate_den = 0]
             ELSE c]

get_video_buffer(c, st) ==
    [rc |-> handle_vhd_status(st),
     ctx |-> IF st = "NOERROR" THEN [c EXCEPT !.video_buffer = TRUE] ELSE c]

\* HDMI: VHD_GetSlotDvAudioInfo (in.st_info, in.pair), then the two
\* VHD_SlotExtractDvPCMAudio calls (in.size, in.st_extract) around av_mallocz.
\* Otherwise VHD_SlotExtractAudio and the interleaving into a buffer of
\* nb_samples * nb_channels * bytes_per_sample bytes, whose result is dropped.
get_audio_buffer(c, in) ==
    IF c.channel_type = "HDMI"
    THEN CASE handle_vhd_status(in.st_info) # 0 -> [rc |-> AVERROR_EIO, ctx |-> c]
           [] handle_vhd_status(in.st_info) = 0 /\ in.pair.frame.audio_type = "NONE" ->
                 [rc |-> AVERROR_EIO, ctx |-> c]
           [] handle_vhd_status(in.st_info) = 0 /\ in.pair.frame.audio_type # "NONE"
                /\ in.pair.aes.LinearPCM # "LINEAR_PCM_SAMPLE" ->
                 [rc |-> AVERROR_EIO, ctx |-> [c EXCEPT !.audio_buffer_size = 0]]
           [] OTHER ->
                 IF handle_vhd_status(in.st_extract) # 0
                 THEN [rc |-> AVERROR_EIO,
                       ctx |-> [c EXCEPT !.audio_buffer_size = in.size,
                                         !.audio_buffer = FALSE]]
                 ELSE [rc |-> 0,
                       ctx |-> [c EXCEPT !.audio_buffer_size = in.size,
                                         !.audio_buffer = in.allocated]]
    ELSE [rc |-> 0,
          ctx |-> [c EXCEPT !.audio_buffer_size =
                                in.nb_samples * c.audio_nb_channels
                                    * (c.audio_sample_size \div 8),
                            !.audio_buffer = in.allocated]]

\* The driver extraction call of ff_videomaster_get_data that failed first,
\* "none" when the slot was not locked or every call made succeeded.
FailedExtraction(c, in) ==
    CASE in.st_lock # "NOERROR" -> "none"
      [] in.st_lock = "NOERROR" /\ c.has_video /\ in.st_video # "NOERROR" ->
            "VHD_GetSlotBuffer"
      [] in.st_lock = "NOERROR" /\ ~(c.has_video /\ in.st_video # "NOERROR")
           /\ c.has_audio /\ c.channel_type = "HDMI" ->
            CASE in.st_info # "NOERROR" -> "VHD_GetSlotDvAudioInfo"
              [] in.st_info = "NOERROR" /\ in.pair.frame.audio_type # "NONE"
                   /\ in.pair.aes.LinearPCM = "LINEAR_PCM_SAMPLE"
                   /\ in.st_extract # "NOERROR" -> "VHD_SlotExtractDvPCMAudio"
              [] OTHER -> "none"
      [] in.st_lock = "NOERROR" /\ ~(c.has_video /\ in.st_video # "NOERROR")
           /\ c.has_audio /\ c.channel_type # "HDMI"
           /\ in.st_extract # "NOERROR" -> "VHD_SlotExtractAudio"
      [] OTHER -> "none"

ff_videomaster_get_data(c, d, in) ==
    LET locked == lock_slot(c, d, in.st_lock)
        video == get_video_buffer(locked.ctx, in.st_video)
        source == IF c.has_video THEN video.ctx ELSE locked.ctx
        audio == get_audio_buffer(source, in)
        out(rc, cx) == [rc |-> rc, ctx |-> cx, drv |-> locked.drv,
                        call |-> locked.call, lock_slot_status |-> locked.rc,
                        failed |-> FailedExtraction(c, in)]
    IN  CASE locked.rc = AVERROR_EAGAIN -> out(AVERROR_EAGAIN, locked.ctx)
          [] locked.rc # AVERROR_EAGAIN /\ locked.rc # 0 -> out(AVERROR_EIO, locked.ctx)
          [] locked.rc = 0 /\ c.has_video /\ video.rc # 0 -> out(AVERROR_EIO, video.ctx)
          [] locked.rc = 0 /\ ~(c.has_video /\ video.rc # 0)
               /\ c.has_audio /\ audio.rc # 0 -> out(AVERROR_EIO, audio.ctx)
          [] locked.rc = 0 /\ ~(c.has_video /\ video.rc # 0)
               /\ c.has_audio /\ audio.rc = 0 -> out(0, audio.ctx)
          [] OTHER -> out(0, source)

\* The function without its test of the slot handle: what
\* C40_IdleSlotTimestamp must tell from ff_videomaster_get_timestamp.
ff_videomaster_get_timestamp_unguarded(c, base, in) ==
    LET rebased == IF base = 0 THEN in.raw ELSE base IN
    CASE handle_vhd_status(in.st_time) # 0 ->
            [rc |-> handle_vhd_status(in.st_time), timestamp |-> c.pts,
             base |-> base]
      [] handle_vhd_status(in.st_time) = 0
           /\ c.timestamp_source = AV_VIDEOMASTER_TIMESTAMP_HARDWARE ->
            [rc |-> 0, timestamp |-> (in.raw * 1000000) \div in.clock_frequency,
             base |-> base]
      [] OTHER -> [rc |-> 0, timestamp |-> in.raw - rebased, base |-> rebased]

\* The timestamp is left as it was when the driver call fails.
ff_videomaster_get_timestamp(c, base, in) ==
    LET rebased == IF base = 0 THEN in.raw ELSE base IN
    CASE c.slot_handle = NULL ->
            [rc |-> AVERROR_EINVAL, timestamp |-> c.pts, base |-> base]
      [] c.slot_handle # NULL /\ handle_vhd_status(in.st_time) # 0 ->
            [rc |-> handle_vhd_status(in.st_time), timestamp |-> c.pts,
             base |-> base]
      [] c.slot_handle # NULL /\ handle_vhd_status(in.st_time) = 0
           /\ c.timestamp_source = AV_VIDEOMASTER_TIMESTAMP_HARDWARE ->
            [rc |-> 0, timestamp |-> (in.raw * 1000000) \div in.clock_frequency,
             base |-> base]
      [] OTHER -> [rc |-> 0, timestamp |-> in.raw - rebased, base |-> rebased]

PcmPair == [frame |-> Frame("PCM", "PCM", "16_BITS", "48000HZ", 2), aes |-> AesPcm]
DefaultFetch ==
    [st_lock |-> "NOERROR", st_video |-> "NOERROR", st_info |-> "NOERROR",
     pair |-> PcmPair, size |-> 0, st_extract |-> "NOERROR", nb_samples |-> 0,
     allocated |-> TRUE]

\* The answers that make a difference to ff_videomaster_get_data of c: what
\* follows the first failure is not drawn, nor is the audio of the other
\* channel type.
AudioInputs(c) ==
    IF c.channel_type = "HDMI"
    THEN {[DefaultFetch EXCEPT !.st_info = "ERROR"],
          [DefaultFetch EXCEPT !.st_extract = "ERROR"]}
         \cup {[DefaultFetch EXCEPT !.pair = p] :
                 p \in {q \in FramePairs : q.frame.audio_type = "NONE"
                                             \/ q.aes.LinearPCM # "LINEAR_PCM_SAMPLE"}}
         \cup {[DefaultFetch EXCEPT !.size = s, !.allocated = a] :
                 s \in AudioSizes, a \in BOOLEAN}
    ELSE {[DefaultFetch EXCEPT !.st_extract = "ERROR"]}
         \cup {[DefaultFetch EXCEPT !.nb_samples = n, !.allocated = a] :
                 n \in SampleCounts, a \in BOOLEAN}

FetchInputs(c) ==
    IF c.stream_handle = NULL
    THEN {[DefaultFetch EXCEPT !.st_lock = "ERROR"]}
    ELSE {[DefaultFetch EXCEPT !.st_lock = st] : st \in {"TIMEOUT", "ERROR"}}
         \cup (IF c.has_video THEN {[DefaultFetch EXCEPT !.st_video = "ERROR"]} ELSE {})
         \cup (IF c.has_audio THEN AudioInputs(c) ELSE {DefaultFetch})
FetchCost(c, in) ==
    CostOn(c.stream_handle, in.st_lock) + Cost(in.st_video) + Cost(in.st_info)
        + Cost(in.st_extract) + Lost(in.allocated)

\* What av_new_packet and the timestamp call answer once the data is there.
DefaultVideoPacket ==
    [packet |-> TRUE, st_time |-> "NOERROR", raw |-> 0, clock_frequency |-> 1000000]
VideoPacketInputs ==
    {[DefaultVideoPacket EXCEPT !.packet = FALSE],
     [DefaultVideoPacket EXCEPT !.st_time = "ERROR"]}
    \cup {[DefaultVideoPacket EXCEPT !.raw = r, !.clock_frequency = f] :
             r \in RawTimes, f \in ClockFrequencies}
VideoPacketCost(in) == Lost(in.packet) + Cost(in.st_time)

\* The clock the driver reads does not run backwards: a reading is not before
\* the previous one, nor before the one system_ts_base was captured from.
LastRaw == IF stamps = <<>> THEN system_ts_base ELSE stamps[Len(stamps)].raw
ClockInputs ==
    {a \in VideoPacketInputs :
        (a.packet /\ a.st_time = "NOERROR") => a.raw >= LastRaw}

\* read_packet on a video turn.
ReadPacketVideo ==
    /\ pc = "idle"
    /\ ctx.return_video_next
    /\ reads < MaxReads
    /\ \E in \in FetchInputs(ctx) :
          LET turned == [ctx EXCEPT !.return_video_next = FALSE]
              got == ff_videomaster_get_data(turned, drv, in)
          IN  /\ drv' = got.drv
              /\ call' = got.call
              /\ get_data' = [lock_slot_status |-> got.lock_slot_status,
                              rc |-> got.rc, failed |-> got.failed]
              /\ IF got.rc = 0 /\ ctx.has_video
                 THEN \E ans \in ClockInputs :
                         LET stamped == ff_videomaster_get_timestamp(
                                            got.ctx, system_ts_base, ans)
                         IN  /\ Fault(FetchCost(ctx, in) + VideoPacketCost(ans))
                             /\ IF ans.packet
                                THEN /\ ctx' = [got.ctx EXCEPT
                                                  !.pts = stamped.timestamp]
                                     /\ pkt' = [kind |-> "video",
                                                pts |-> stamped.timestamp]
                                     /\ Returns("read_packet", 0)
                                     /\ system_ts_base' = stamped.base
                                     /\ stamps' = IF stamped.rc = 0
                                                   THEN Append(stamps,
                                                          [raw |-> ans.raw,
                                                           timestamp |-> stamped.timestamp])
                                                   ELSE stamps
                                ELSE /\ ctx' = got.ctx
                                     /\ pkt' = NoPacket
                                     /\ Returns("read_packet", AVERROR_ENOMEM)
                                     /\ UNCHANGED <<system_ts_base, stamps>>
                 ELSE /\ Fault(FetchCost(ctx, in))
                      /\ ctx' = got.ctx
                      /\ pkt' = NoPacket
                      /\ Returns("read_packet",
                                 IF got.rc # 0 THEN AVERROR_EIO ELSE 0)
                      /\ UNCHANGED <<system_ts_base, stamps>>
    /\ released' = FALSE
    /\ reads' = reads + 1
    /\ UNCHANGED <<rx, device_list, locals, session, pc, data, lctx, prc, hse, hw,
                   return_code,
                   audio_info, audio_bytes>>

\* read_packet on an audio turn: av_new_packet fails, or the packet (if any)
\* is filled and the data released.
ReadPacketAudio ==
    /\ pc = "idle"
    /\ ~ctx.return_video_next
    /\ reads < MaxReads
    /\ LET turned == [ctx EXCEPT !.return_video_next = TRUE] IN
       \/ /\ ctx.has_audio
          /\ Fault(1)
          /\ ctx' = turned
          /\ pkt' = NoPacket
          /\ call' = NoCall
          /\ released' = FALSE
          /\ Returns("read_packet", AVERROR_ENOMEM)
          /\ UNCHANGED drv
       \/ \E st \in StatusOn(ctx.slot_handle, VhdOkErr) :
             LET freed == ff_videomaster_release_data(turned, drv, st) IN
             /\ Fault(CostOn(ctx.slot_handle, st))
             /\ ctx' = freed.ctx
             /\ drv' = freed.drv
             /\ call' = freed.call
             /\ released' = TRUE
             /\ pkt' = IF ctx.has_audio
                       THEN [kind |-> "audio", pts |-> ctx.pts + 1]
                       ELSE NoPacket
             /\ Returns("read_packet", IF freed.rc # 0 THEN AVERROR_EIO ELSE 0)
    /\ reads' = reads + 1
    /\ UNCHANGED <<rx, device_list, locals, stamps, session, pc, data, lctx, prc, hse, hw, get_data, return_code,
                   system_ts_base,
                   audio_info, audio_bytes>>

(***************************************************************************)
(* ff_videomaster_read_close                                               *)
(***************************************************************************)
\* The handle the next step closes, once the stream is stopped.
AfterStop(c) ==
    CASE c.stream_handle # NULL -> "close_stream"
      [] c.stream_handle = NULL /\ c.board_handle # NULL -> "close_board"
      [] OTHER -> "closed"

\* read_close up to ff_videomaster_release_data, whose failure returns.
ReadClose ==
    /\ pc = "idle"
    /\ \E st \in StatusOn(ctx.slot_handle, VhdOkErr) :
          LET freed == ff_videomaster_release_data(ctx, drv, st) IN
          /\ Fault(CostOn(ctx.slot_handle, st))
          /\ ctx' = freed.ctx
          /\ drv' = freed.drv
          /\ call' = freed.call
          /\ IF freed.rc # 0
             THEN Returns("read_close", AVERROR_EIO) /\ pc' = "closed"
             ELSE ret' = ret /\ pc' = "close_stop"
    /\ released' = TRUE
    /\ return_code' = 0
    /\ UNCHANGED <<rx, device_list, locals, stamps, session, data, lctx, prc, hse, hw, get_data, pkt, system_ts_base,
                   reads,
                   audio_info, audio_bytes>>

CloseStopStream ==
    /\ pc = "close_stop"
    /\ \E st \in StatusOn(ctx.stream_handle, VhdOkErr) :
          LET stopped == ff_videomaster_stop_stream(ctx, drv, st)
              code == IF stopped.rc # 0 THEN AVERROR_EIO ELSE return_code
          IN  /\ Fault(CostOn(ctx.stream_handle, st))
              /\ ctx' = stopped.ctx
              /\ drv' = stopped.drv
              /\ call' = stopped.call
              /\ return_code' = code
              /\ pc' = AfterStop(ctx)
              /\ IF AfterStop(ctx) = "closed"
                 THEN Returns("read_close", code)
                 ELSE ret' = ret
    /\ released' = FALSE
    /\ UNCHANGED <<rx, device_list, locals, stamps, session, data, lctx, prc, hse, hw, get_data, pkt, system_ts_base,
                   reads,
                   audio_info, audio_bytes>>

CloseStreamHandle ==
    /\ pc = "close_stream"
    /\ \E st \in VhdOkErr :
          LET closed == ff_videomaster_close_stream_handle(ctx, drv, st)
              code == IF closed.rc # 0 THEN AVERROR_EIO ELSE return_code
          IN  /\ Fault(Cost(st))
              /\ ctx' = closed.ctx
              /\ drv' = closed.drv
              /\ call' = closed.call
              /\ return_code' = code
              /\ pc' = IF ctx.board_handle # NULL THEN "close_board" ELSE "closed"
              /\ IF ctx.board_handle = NULL
                 THEN Returns("read_close", code)
                 ELSE ret' = ret
    /\ UNCHANGED <<rx, device_list, locals, stamps, session, data, lctx, prc, hse, hw, get_data, released, pkt,
                   system_ts_base, reads,
                   audio_info, audio_bytes>>

\* The board handle is closed, the context is freed and read_close returns.
CloseBoardHandle ==
    /\ pc = "close_board"
    /\ \E st \in VhdOkErr :
          LET closed == ff_videomaster_close_board_handle(ctx, drv, st)
              code == IF closed.rc # 0 THEN AVERROR_EIO ELSE return_code
          IN  /\ Fault(Cost(st))
              /\ ctx' = closed.ctx
              /\ drv' = closed.drv
              /\ call' = closed.call
              /\ return_code' = code
              /\ Returns("read_close", code)
    /\ pc' = "closed"
    /\ UNCHANGED <<rx, device_list, locals, stamps, session, data, lctx, prc, hse, hw, get_data, released, pkt,
                   system_ts_base, reads,
                   audio_info, audio_bytes>>

(***************************************************************************)
(* The session.                                                            *)
(***************************************************************************)
Next ==
    \/ ReadHeaderParse
    \/ ReadHeaderApiInfo
    \/ CheckBoardIndex
    \/ CheckChannelIndex
    \/ VideoProperties
    \/ VideoPropertiesClose
    \/ OpenStreamHandle
    \/ AudioProperties
    \/ ProbeStart
    \/ ProbeLock
    \/ ProbeInfo
    \/ ProbeUnlock
    \/ ProbeStop
    \/ CheckTimestampSource
    \/ HeaderStartStream
    \/ SetupStreams
    \/ HeaderCloseStream
    \/ HeaderCloseBoard
    \/ ReadPacketVideo
    \/ ReadPacketAudio
    \/ ReadClose
    \/ CloseStopStream
    \/ CloseStreamHandle
    \/ CloseBoardHandle

Spec == Init /\ [][Next]_vars

(***************************************************************************)
(* ff_videomaster_get_timestamp on its own: the readings of the sessions   *)
(* of one process, which share the static system_ts_base.                  *)
(***************************************************************************)
\* A session's context as far as ff_videomaster_get_timestamp reads it: the
\* timestamp source and whether a slot is locked.
TimestampContexts ==
    {[ZeroContext EXCEPT !.timestamp_source = t, !.slot_handle = h] :
        t \in TimestampSources, h \in {NULL, 1}}

TimestampInit ==
    /\ pc = "timestamp"
    /\ data = NoData
    /\ ctx \in TimestampContexts
    /\ lctx = ZeroContext
    /\ prc = NoProbeReturn
    /\ hse = NoUnwind
    /\ hw = NoHardware
    /\ drv = NoDriver
    /\ call = NoCall
    /\ ret = NoReturn
    /\ get_data = NoGetData
    /\ return_code = 0
    /\ released = FALSE
    /\ pkt = NoPacket
    /\ system_ts_base = 0
    /\ reads = 0
    /\ faults = 0
    /\ stamps = <<>>
    /\ session = 1
    /\ rx = <<>>
    /\ device_list = <<>>
    /\ locals = NoLocals
    /\ audio_info = <<>>
    /\ audio_bytes = <<>>

\* One call of ff_videomaster_get_timestamp(videomaster_context, &pts).
GetTimestamp ==
    /\ pc = "timestamp"
    /\ reads < MaxReads
    /\ \E in \in {a \in ClockInputs : a.packet} :
          LET stamped == ff_videomaster_get_timestamp(ctx, system_ts_base, in) IN
          /\ ctx' = [ctx EXCEPT !.pts = stamped.timestamp]
          /\ system_ts_base' = stamped.base
          /\ stamps' = IF stamped.rc = 0
                        THEN Append(stamps, [raw |-> in.raw,
                                             timestamp |-> stamped.timestamp])
                        ELSE stamps
          /\ return_code' = stamped.rc
    /\ reads' = reads + 1
    /\ UNCHANGED <<pc, data, lctx, prc, hse, hw, drv, call, ret, get_data,
                   released, pkt, faults, session, rx, device_list, locals,
                   audio_info, audio_bytes>>

\* The process opens its next capture session: a fresh context, while the
\* static system_ts_base keeps its value and the clock keeps running.
NextSession ==
    /\ pc = "timestamp"
    /\ session < MaxSessions
    /\ session' = session + 1
    /\ ctx' \in TimestampContexts
    /\ stamps' = <<>>
    /\ reads' = 0
    /\ return_code' = 0
    /\ UNCHANGED <<pc, data, lctx, prc, hse, hw, drv, call, ret, get_data,
                   released, pkt, system_ts_base, faults, rx, device_list,
                   locals, audio_info, audio_bytes>>

TimestampNext ==
    \/ GetTimestamp
    \/ NextSession

TimestampSpec == TimestampInit /\ [][TimestampNext]_vars

(***************************************************************************)
(* ff_videomaster_list_input_devices: the enumeration of the boards and of *)
(* their receive channels.                                                 *)
(***************************************************************************)
\* Boards an enumeration finds, and the receive channels a board carries:
\* each one with or without a signal, on an HDMI or on an SDI receiver.
\* status is what the query of VHD_CORE_CP_STATUS answered for the channel:
\* "unread" before the loop reaches it, then "read" or "failed".
EnumBoardCounts == {0, 1, 2}
EnumChannelCounts == {1, 2}
EnumChannelCodes == {"HDMI_TMDS", "12GSDI"}
RxBoards ==
    UNION {[1..n -> [locked : BOOLEAN, chn_code : EnumChannelCodes,
                     status : {"unread"}]] : n \in EnumChannelCounts}

\* AVDeviceInfo of format_device_name ("stream %d on board %d") and of
\* format_device_description, which tells HDMI from everything else.
create_device_info(c) ==
    [board_index |-> c.board_index, channel_index |-> c.channel_index,
     description |-> IF c.channel_type = "HDMI" THEN "HDMI video" ELSE "SDI video"]

\* Descriptors of the list that name channel ch (from 0) of board b.
Descriptors(b, ch) ==
    {i \in DOMAIN device_list : /\ device_list[i].board_index = b
                                /\ device_list[i].channel_index = ch}

EnumInit ==
    /\ pc = "list_start"
    /\ data = NoData
    /\ ctx = ZeroContext
    /\ lctx = ZeroContext
    /\ prc = NoProbeReturn
    /\ hse = NoUnwind
    /\ hw = NoHardware
    /\ drv = NoDriver
    /\ call = NoCall
    /\ ret = NoReturn
    /\ get_data = NoGetData
    /\ return_code = 0
    /\ released = FALSE
    /\ pkt = NoPacket
    /\ system_ts_base = 0
    /\ reads = 0
    /\ faults = 0
    /\ stamps = <<>>
    /\ session = 1
    /\ rx = <<>>
    /\ device_list = <<>>
    /\ locals = NoLocals
    /\ audio_info = <<>>
    /\ audio_bytes = <<>>

\* ff_videomaster_list_input_devices up to its loop over the boards.
ListInputDevices ==
    /\ pc = "list_start"
    /\ \E st \in VhdOkErr, boards \in EnumBoardCounts :
          LET got == ff_videomaster_get_api_info(ctx, st, boards) IN
          /\ Fault(Cost(st))
          /\ st = "ERROR" => boards = 0
          /\ IF got.rc # 0 \/ got.ctx.number_of_boards = 0
             THEN /\ ctx' = got.ctx
                  /\ Returns("list_input_devices", AVERROR_EIO)
                  /\ pc' = "list_done"
             ELSE /\ ctx' = [got.ctx EXCEPT !.board_index = 0]
                  /\ ret' = ret
                  /\ pc' = "enum_open"
    /\ call' = NoCall
    /\ UNCHANGED <<rx, device_list, locals, stamps, session, data, lctx, prc, hse,
                   hw, drv, get_data, return_code, released, pkt, system_ts_base,
                   reads,
                   audio_info, audio_bytes>>

\* ff_videomaster_create_devices_infos_from_board_index:
\* GET_AND_CHECK(ff_videomaster_open_board_handle).  board is what the
\* board of that index carries.
EnumOpenBoard ==
    /\ pc = "enum_open"
    /\ \E st \in VhdOkErr, board \in RxBoards :
          LET opened == ff_videomaster_open_board_handle(ctx, drv, st) IN
          /\ Fault(Cost(st))
          /\ rx' = board
          /\ ctx' = opened.ctx
          /\ drv' = opened.drv
          /\ call' = opened.call
          /\ IF opened.rc # 0
             THEN Returns("create_devices_infos", opened.rc) /\ pc' = "enum_return"
             ELSE ret' = ret /\ pc' = "enum_info"
    /\ locals' = NoLocals
    /\ UNCHANGED <<device_list, stamps, session, data, lctx, prc, hse, hw,
                   get_data, return_code, released, pkt, system_ts_base, reads,
                   audio_info, audio_bytes>>

\* get_board_name_and_serial_number and ff_videomaster_get_nb_rx_channels:
\* failed names the first of them that fails, an allocation of the two
\* strings or the query of the channel count; each failure closes the board
\* handle and returns the error.
EnumBoardInfo ==
    /\ pc = "enum_info"
    /\ \E failed \in {"none", "board_name", "serial_number", "nb_rx_channels"} :
          LET av_error == CASE failed = "none" -> 0
                            [] failed = "nb_rx_channels" -> handle_vhd_status("ERROR")
                            [] OTHER -> AVERROR_ENOMEM
          IN  IF av_error # 0
              THEN \E st \in VhdOkErr :
                      LET closed == ff_videomaster_close_board_handle(ctx, drv, st) IN
                      /\ Fault(1 + Cost(st))
                      /\ ctx' = closed.ctx
                      /\ drv' = closed.drv
                      /\ call' = closed.call
                      /\ locals' = [locals EXCEPT !.av_error = av_error]
                      /\ Returns("create_devices_infos", av_error)
                      /\ pc' = "enum_return"
              ELSE /\ Fault(0)
                   /\ ctx' = [ctx EXCEPT !.nb_rx_channels = Len(rx)]
                   /\ locals' = NoLocals
                   /\ pc' = "enum_loop"
                   /\ call' = NoCall
                   /\ UNCHANGED <<drv, ret>>
    /\ UNCHANGED <<rx, device_list, stamps, session, data, lctx, prc, hse, hw,
                   get_data, return_code, released, pkt, system_ts_base, reads,
                   audio_info, audio_bytes>>

\* ff_videomaster_is_channel_locked: a failed status query counts as no
\* signal.
ff_videomaster_is_channel_locked(channel, vhd_status) ==
    IF handle_vhd_status(vhd_status) = 0 THEN channel.locked ELSE FALSE

\* One turn of the loop over the receive channels up to the lock test.
EnumChannel ==
    /\ pc = "enum_loop"
    /\ locals.channel_index < ctx.nb_rx_channels
    /\ \E st \in VhdOkErr :
          /\ Fault(Cost(st))
          /\ ctx' = [ctx EXCEPT !.channel_index = locals.channel_index]
          /\ rx' = [rx EXCEPT ![locals.channel_index + 1].status =
                                IF st = "NOERROR" THEN "read" ELSE "failed"]
          /\ IF ff_videomaster_is_channel_locked(rx[locals.channel_index + 1], st)
             THEN locals' = locals /\ pc' = "enum_video"
             ELSE /\ locals' = [locals EXCEPT !.channel_index = @ + 1]
                  /\ pc' = "enum_loop"
    /\ call' = NoCall
    /\ UNCHANGED <<device_list, stamps, session, data, lctx, prc, hse, hw,
                   drv, ret, get_data, return_code, released, pkt,
                   system_ts_base, reads,
                   audio_info, audio_bytes>>

\* The transient handle a property resolver opens on an HDMI channel when it
\* is given no stream handle: the handle, or NULL if the opening failed.
TransientHandle(d, st) == IF st = "NOERROR" THEN Len(d.streams) + 1 ELSE NULL

\* add_device_info_into_list: ff_videomaster_get_video_stream_properties with
\* the NULL stream handle of the enumeration context.  It returns 0 whatever
\* the driver answers.
EnumVideoProperties ==
    /\ pc = "enum_video"
    /\ \E st_type \in VhdOkErr :
          LET type == ff_videomaster_get_channel_type_from_index(
                          rx[locals.channel_index + 1].chn_code, st_type)
          IN  IF type = "HDMI"
              THEN \E st \in VhdOkErr :
                      LET h == TransientHandle(drv, st) IN
                      /\ Fault(Cost(st_type) + Cost(st))
                      /\ ctx' = [ctx EXCEPT !.channel_type = type,
                                            !.video_frame_rate_den = HdmiTotalPixels]
                      /\ drv' = DrvCloseStream(
                                    DrvOpenStream(drv, ctx.board_handle, st), h)
                      /\ call' = Call("VHD_CloseStreamHandle", h,
                                      IF h = NULL THEN "ERROR" ELSE "NOERROR")
              ELSE \E divisor \in ClockDivisors :
                      /\ Fault(Cost(st_type))
                      /\ ctx' = [ctx EXCEPT !.channel_type = type,
                                            !.video_frame_rate_den =
                                                SdiFrameRateDen(divisor, @)]
                      /\ call' = NoCall
                      /\ drv' = drv
    /\ pc' = "enum_audio"
    /\ UNCHANGED <<rx, device_list, locals, stamps, session, data, lctx, prc, hse,
                   hw, ret, get_data, return_code, released, pkt, system_ts_base,
                   reads,
                   audio_info, audio_bytes>>

\* The driver's answers to one run of
\* get_audio_stream_properties_from_audio_infoframe on stream handle h: all
\* fine with one of the info-frames, or one call failing.  On a NULL handle
\* the first stream property is refused, and st_inner is the status of the
\* VHD_OpenStreamHandle its ff_videomaster_get_video_stream_properties then
\* issues for itself.
DefaultProbe ==
    [st_inner |-> "NOERROR",
     start |-> [padded |-> FALSE, st_timeout |-> "NOERROR", st_clk |-> "NOERROR",
                st_start |-> "NOERROR"],
     st_lock |-> "NOERROR", st_info |-> "NOERROR", pair |-> PcmPair,
     st_unlock |-> "NOERROR", st_stop |-> "NOERROR"]
ProbeInputs(h) ==
    IF h = NULL
    THEN {[DefaultProbe EXCEPT !.start.st_timeout = "ERROR", !.st_inner = st] :
             st \in VhdOkErr}
    ELSE {[DefaultProbe EXCEPT !.pair = p] : p \in FramePairs}
         \cup {[DefaultProbe EXCEPT !.start.st_timeout = "ERROR"],
               [DefaultProbe EXCEPT !.start.st_start = "ERROR"],
               [DefaultProbe EXCEPT !.st_lock = "TIMEOUT"],
               [DefaultProbe EXCEPT !.st_lock = "ERROR"],
               [DefaultProbe EXCEPT !.st_info = "ERROR"],
               [DefaultProbe EXCEPT !.st_unlock = "ERROR"],
               [DefaultProbe EXCEPT !.st_stop = "ERROR"]}
ProbeCost(h, in) ==
    Cost(in.st_inner) + CostOn(h, in.start.st_timeout) + Cost(in.start.st_start) + Cost(in.st_lock)
    + Cost(in.st_info) + Cost(in.st_unlock) + Cost(in.st_stop)

\* get_audio_stream_properties_from_audio_infoframe as a function of the
\* driver's answers: c is the caller's context, whose audio fields it writes,
\* h the stream handle it is given.  Its own context is local; it first reads
\* the video properties, which on a NULL handle open and close a transient
\* handle of their own; every early return after the start goes through
\* ff_videomaster_stop_stream, whose result is dropped.
get_audio_stream_properties_from_audio_infoframe(c, d, h, in) ==
    LET local == [ZeroContext EXCEPT !.board_handle = c.board_handle,
                                     !.stream_handle = h,
                                     !.channel_index = c.channel_index]
        reset == [c EXCEPT !.audio_format = 0, !.audio_codec = "NONE"]
        viewed == IF h = NULL
                  THEN DrvCloseStream(DrvOpenStream(d, c.board_handle, in.st_inner),
                                      TransientHandle(d, in.st_inner))
                  ELSE d
        started == ff_videomaster_start_stream(local, viewed, in.start)
        locked == lock_slot(started.ctx, started.drv, in.st_lock)
        decoded == DecodedAudio(reset, in.pair.frame, in.pair.aes)
        unlocked == unlock_slot(locked.ctx, locked.drv, in.st_unlock)
        stopped(l, dd) == ff_videomaster_stop_stream(l, dd, in.st_stop)
        early(rc, cx) == [rc |-> rc, ctx |-> cx,
                          drv |-> stopped(locked.ctx, locked.drv).drv]
    IN  CASE started.rc # 0 ->
                [rc |-> started.rc, ctx |-> reset, drv |-> started.drv]
          [] started.rc = 0 /\ locked.rc # 0 -> early(locked.rc, reset)
          [] started.rc = 0 /\ locked.rc = 0 /\ handle_vhd_status(in.st_info) # 0 ->
                early(handle_vhd_status(in.st_info), reset)
          [] started.rc = 0 /\ locked.rc = 0 /\ handle_vhd_status(in.st_info) = 0
               /\ in.pair.frame.audio_type = "NONE" -> early(0, reset)
          [] started.rc = 0 /\ locked.rc = 0 /\ handle_vhd_status(in.st_info) = 0
               /\ in.pair.frame.audio_type # "NONE" /\ decoded.rc # 0 ->
                early(decoded.rc, decoded.ctx)
          [] started.rc = 0 /\ locked.rc = 0 /\ handle_vhd_status(in.st_info) = 0
               /\ in.pair.frame.audio_type # "NONE" /\ decoded.rc = 0
               /\ unlocked.rc # 0 ->
                [rc |-> unlocked.rc, ctx |-> decoded.ctx,
                 drv |-> stopped(unlocked.ctx, unlocked.drv).drv]
          [] OTHER ->
                [rc |-> stopped(unlocked.ctx, unlocked.drv).rc, ctx |-> decoded.ctx,
                 drv |-> stopped(unlocked.ctx, unlocked.drv).drv]

\* add_device_info_into_list: ff_videomaster_get_audio_stream_properties with
\* the NULL stream handle of the enumeration context.  On an HDMI channel it
\* opens a transient handle, runs the probe, and closes the handle only when
\* the probe succeeded; a failure of the probe is the failure of
\* add_device_info_into_list, and the loop over the channels breaks.
EnumAudioProperties ==
    /\ pc = "enum_audio"
    /\ \E st_type \in VhdOkErr :
          LET type == ff_videomaster_get_channel_type_from_index(
                          rx[locals.channel_index + 1].chn_code, st_type)
              typed == [ctx EXCEPT !.channel_type = type]
          IN  IF type = "HDMI"
              THEN \E st \in VhdOkErr :
                      LET h == TransientHandle(drv, st) IN
                      \E in \in ProbeInputs(h) :
                         LET probed ==
                                 get_audio_stream_properties_from_audio_infoframe(
                                     typed, DrvOpenStream(drv, ctx.board_handle, st),
                                     h, in)
                         IN  /\ Fault(Cost(st_type) + Cost(st) + ProbeCost(h, in))
                             /\ ctx' = probed.ctx
                             /\ IF probed.rc # 0
                                THEN /\ drv' = probed.drv
                                     /\ call' = Call("VHD_StopStream", h, in.st_stop)
                                     /\ locals' = [locals EXCEPT
                                                     !.av_error = probed.rc]
                                     /\ pc' = "enum_close"
                                ELSE /\ drv' = DrvCloseStream(probed.drv, h)
                                     /\ call' = Call("VHD_CloseStreamHandle", h,
                                                     "NOERROR")
                                     /\ locals' = locals
                                     /\ pc' = "enum_add"
              ELSE /\ Fault(Cost(st_type))
                   /\ ctx' = typed
                   /\ call' = NoCall
                   /\ pc' = "enum_add"
                   /\ UNCHANGED <<drv, locals>>
    /\ UNCHANGED <<rx, device_list, stamps, session, data, lctx, prc, hse, hw, ret,
                   get_data, return_code, released, pkt, system_ts_base, reads,
                   audio_info, audio_bytes>>

\* add_device_info_into_list from format_device_name on.  failed names the
\* allocation that returns NULL: of the name or of the description, of the
\* AVDeviceInfo, of its media_types, or of the grown devices array.  With
\* media_types NULL create_device_info writes through the pointer it has just
\* reset to NULL: the process stops, or the write goes unnoticed and NULL is
\* returned.
EnumAddDevice ==
    /\ pc = "enum_add"
    /\ \E failed \in {"none", "device_name", "device_description", "device_info",
                      "media_types", "devices"} :
          IF failed = "none"
          THEN /\ Fault(0)
               /\ device_list' = Append(device_list, create_device_info(ctx))
               /\ locals' = [locals EXCEPT !.channel_index = @ + 1]
               /\ pc' = "enum_loop"
          ELSE /\ Fault(1)
               /\ device_list' = device_list
               /\ locals' = [locals EXCEPT !.av_error = AVERROR_ENOMEM]
               /\ pc' \in IF failed = "media_types"
                          THEN {"crashed", "enum_close"}
                          ELSE {"enum_close"}
    /\ call' = NoCall
    /\ UNCHANGED <<rx, stamps, session, data, ctx, lctx, prc, hse, hw, drv, ret,
                   get_data, return_code, released, pkt, system_ts_base, reads,
                   audio_info, audio_bytes>>

\* After the loop, ended or broken: the board handle is closed and
\* ff_videomaster_create_devices_infos_from_board_index returns 0.
EnumCloseBoard ==
    /\ \/ pc = "enum_close"
       \/ pc = "enum_loop" /\ locals.channel_index >= ctx.nb_rx_channels
    /\ \E st \in VhdOkErr :
          LET closed == ff_videomaster_close_board_handle(ctx, drv, st) IN
          /\ Fault(Cost(st))
          /\ ctx' = closed.ctx
          /\ drv' = closed.drv
          /\ call' = closed.call
    /\ Returns("create_devices_infos", 0)
    /\ pc' = "enum_return"
    /\ UNCHANGED <<rx, device_list, locals, stamps, session, data, lctx, prc, hse,
                   hw, get_data, return_code, released, pkt, system_ts_base,
                   reads,
                   audio_info, audio_bytes>>

\* ff_videomaster_list_input_devices after the call for a board: a negative
\* result ends the listing with EIO, otherwise the next board follows.
ListNextBoard ==
    /\ pc = "enum_return"
    /\ IF ret.rc < 0
       THEN /\ Returns("list_input_devices", AVERROR_EIO)
            /\ pc' = "list_done"
            /\ ctx' = ctx
       ELSE IF ctx.board_index + 1 < ctx.number_of_boards
            THEN /\ ctx' = [ctx EXCEPT !.board_index = @ + 1]
                 /\ ret' = ret
                 /\ pc' = "enum_open"
            ELSE /\ Returns("list_input_devices", 0)
                 /\ pc' = "list_done"
                 /\ ctx' = ctx
    /\ call' = NoCall
    /\ UNCHANGED <<rx, device_list, locals, stamps, session, data, lctx, prc, hse,
                   hw, drv, get_data, return_code, released, pkt, system_ts_base,
                   reads, faults,
                   audio_info, audio_bytes>>

EnumNext ==
    \/ ListInputDevices
    \/ EnumOpenBoard
    \/ EnumBoardInfo
    \/ EnumChannel
    \/ EnumVideoProperties
    \/ EnumAudioProperties
    \/ EnumAddDevice
    \/ EnumCloseBoard
    \/ ListNextBoard

EnumSpec == EnumInit /\ [][EnumNext]_vars

(***************************************************************************)
(* interleaved_audio_info_to_audio_buffer on its own: the SDI audio of one *)
(* frame, from the channel pairs of VHD_AUDIOINFO to the interleaved       *)
(* audio_buffer.                                                           *)
(***************************************************************************)
\* Size of the tables channel_buffers, channel_sizes and channel_modes.
PairCapacity == (VHD_NBOFGROUP * VHD_NBOFCHNPERGROUP) \div 2

\* The byte a source buffer holds at an offset (from 0): each byte of each
\* pair has a value of its own, never 0.
SourceByte(pair, offset) == (pair + 1) * 100 + offset + 1

\* A channel pair as the driver leaves it in pAudioChannels[even index]:
\* its Mode, its DataSize, and pData, which is NULL when not present.
AudioPair(pair, mode, size, present) ==
    [Mode |-> mode, DataSize |-> size, present |-> present,
     pData |-> IF present THEN [o \in 1..size |-> SourceByte(pair, o - 1)]
               ELSE <<>>]

\* The pairs a frame can carry for a sample size: a buffer of 0..MaxSamples
\* whole samples (of both lanes when STEREO), with or without a stray byte
\* after them, or a size with no buffer.
BlockSize(mode, bytes_per_sample) ==
    IF mode = "VHD_AM_STEREO" THEN 2 * bytes_per_sample ELSE bytes_per_sample
PairsAt(pair, bytes_per_sample) ==
    {AudioPair(pair, m, n * BlockSize(m, bytes_per_sample) + stray, TRUE) :
        m \in {"VHD_AM_STEREO", "VHD_AM_MONO"}, n \in 0..MaxSamples,
        stray \in {0, 1}}
    \cup {AudioPair(pair, m, BlockSize(m, bytes_per_sample), FALSE) :
             m \in {"VHD_AM_STEREO", "VHD_AM_MONO"}}
DeinterleaveSampleSizes == {16, 24}
\* The option nb_channels is taken as it is given: the counts up to
\* MaxAudioChannels, and the first count the groups of a frame cannot hold.
ChannelCounts == (1..MaxAudioChannels) \cup {VHD_NBOFGROUP * VHD_NBOFCHNPERGROUP + 1}
DeinterleaveContexts ==
    {[ZeroContext EXCEPT !.channel_type = "SDI", !.has_audio = TRUE,
                         !.audio_nb_channels = n, !.audio_sample_size = size] :
        n \in ChannelCounts, size \in DeinterleaveSampleSizes}

\* The gathering loops stop at nb_channels pairs or at the end of the groups.
GatheredPairs(nb_channels) ==
    IF nb_channels < PairCapacity THEN nb_channels ELSE PairCapacity

\* The frame init_audio_info builds for nb_channels channels, filled by the
\* driver with n samples a channel: a pair at every even channel of the
\* groups, STEREO but for the last channel of an odd count.
init_audio_info(c, n) ==
    LET nb_channels == c.audio_nb_channels
        channels == IF nb_channels < VHD_NBOFGROUP * VHD_NBOFCHNPERGROUP
                    THEN nb_channels
                    ELSE VHD_NBOFGROUP * VHD_NBOFCHNPERGROUP
        Mode(channel_count) ==
            IF nb_channels - channel_count <= 1 /\ nb_channels % 2 = 1
            THEN "VHD_AM_MONO" ELSE "VHD_AM_STEREO"
    IN  [q \in 1..((channels + 1) \div 2) |->
            AudioPair(q - 1, Mode(2 * (q - 1)),
                      n * BlockSize(Mode(2 * (q - 1)), c.audio_sample_size \div 8),
                      TRUE)]

\* The pairs the deinterleaver gathers: up to MaxAudioChannels channels, any
\* pairs a frame can carry; beyond, the frames of init_audio_info.
RECURSIVE PairTables(_, _)
PairTables(pairs, bytes_per_sample) ==
    IF pairs = 0 THEN {<<>>}
    ELSE {Append(info, pair) :
             info \in PairTables(pairs - 1, bytes_per_sample),
             pair \in PairsAt(pairs - 1, bytes_per_sample)}
AudioInfos(c) ==
    IF c.audio_nb_channels <= MaxAudioChannels
    THEN PairTables(GatheredPairs(c.audio_nb_channels), c.audio_sample_size \div 8)
    ELSE {init_audio_info(c, n) : n \in 0..MaxSamples}

\* What the memory after the tables channel_buffers, channel_sizes and
\* channel_modes can hold where they are indexed past their end: any mode,
\* no pointer or a pointer to bytes of no pair, any size.
StrayByte == -1
StrayEntries ==
    [Mode : {"VHD_AM_STEREO", "VHD_AM_MONO"}, DataSize : {0, 6},
     present : BOOLEAN, pData : {<<>>}]
\* The memory after the tables matters to a call only if its channel count
\* can take the pair index past their end.
StrayEntriesOf(c) ==
    IF c.audio_nb_channels > PairCapacity THEN StrayEntries
    ELSE {[Mode |-> "VHD_AM_MONO", DataSize |-> 0, present |-> FALSE,
           pData |-> <<>>]}
\* The entry the tables give for a pair index.
TableEntry(info, stray, channel_pair_index) ==
    IF channel_pair_index < Len(info) THEN info[channel_pair_index + 1]
    ELSE stray

\* samples_in_channel of a pair, and nb_samples, the largest of them.
samples_in_channel(pair, bytes_per_sample) ==
    IF pair.Mode = "VHD_AM_STEREO"
    THEN pair.DataSize \div (2 * bytes_per_sample)
    ELSE pair.DataSize \div bytes_per_sample
RECURSIVE nb_samples_from(_, _, _)
nb_samples_from(info, bytes_per_sample, q) ==
    IF q > Len(info) THEN 0
    ELSE LET rest == nb_samples_from(info, bytes_per_sample, q + 1)
             here == samples_in_channel(info[q], bytes_per_sample)
         IN  IF here > rest THEN here ELSE rest

\* src_offset of a sample in the buffer of its pair, without the two lanes
\* of a STEREO pair: what C26_DeinterleaverLayout must tell from src_offset.
src_offset_of_one_lane(mode, sample_index, lr_channel, bytes_per_sample) ==
    (sample_index + lr_channel) * bytes_per_sample

src_offset(mode, sample_index, lr_channel, bytes_per_sample) ==
    IF mode = "VHD_AM_STEREO"
    THEN (sample_index * 2 + lr_channel) * bytes_per_sample
    ELSE sample_index * bytes_per_sample

\* The loop over channel_index of one sample: for each destination channel,
\* in order, the pair (from 0) and the lane it is copied from.  A STEREO pair
\* takes two channels while channel_index < nb_channels, any other one.
RECURSIVE channel_lanes(_, _, _, _, _)
channel_lanes(info, stray, nb_channels, channel_index, channel_pair_index) ==
    IF channel_index >= nb_channels THEN <<>>
    ELSE IF TableEntry(info, stray, channel_pair_index).Mode = "VHD_AM_STEREO"
         THEN IF channel_index + 1 < nb_channels
              THEN <<[pair |-> channel_pair_index, lr_channel |-> 0],
                     [pair |-> channel_pair_index, lr_channel |-> 1]>>
                   \o channel_lanes(info, stray, nb_channels, channel_index + 2,
                                    channel_pair_index + 1)
              ELSE <<[pair |-> channel_pair_index, lr_channel |-> 0]>>
         ELSE <<[pair |-> channel_pair_index, lr_channel |-> 0]>>
              \o channel_lanes(info, stray, nb_channels, channel_index + 1,
                               channel_pair_index + 1)

\* The function for a context c and the pairs info; allocated tells whether
\* av_mallocz returned a buffer, stray what lies after the tables.  Every
\* byte of the zeroed buffer is written at most once: by the memcpy of its
\* channel and sample if the source is there and long enough.
interleaved_audio_info_to_audio_buffer(c, info, allocated, stray) ==
    LET nb_channels == c.audio_nb_channels
        bytes_per_sample == c.audio_sample_size \div 8
        nb_samples == nb_samples_from(info, bytes_per_sample, 1)
        size == nb_samples * nb_channels * bytes_per_sample
        lanes == channel_lanes(info, stray, nb_channels, 0, 0)
        byte(k) ==
            LET sample_index == k \div (nb_channels * bytes_per_sample)
                channel_index == (k % (nb_channels * bytes_per_sample))
                                    \div bytes_per_sample
                lane == lanes[channel_index + 1]
                src == TableEntry(info, stray, lane.pair)
                offset == src_offset(src.Mode, sample_index, lane.lr_channel,
                                     bytes_per_sample)
            IN  IF src.present /\ offset + bytes_per_sample <= src.DataSize
                THEN IF lane.pair < Len(info)
                     THEN src.pData[offset + (k % bytes_per_sample) + 1]
                     ELSE StrayByte
                ELSE 0
    IN  IF allocated
        THEN [rc |-> 0,
              ctx |-> [c EXCEPT !.audio_buffer_size = size, !.audio_buffer = TRUE],
              bytes |-> [k \in 1..size |-> byte(k - 1)]]
        ELSE [rc |-> AVERROR_ENOMEM,
              ctx |-> [c EXCEPT !.audio_buffer_size = size, !.audio_buffer = FALSE],
              bytes |-> <<>>]

DeinterleaveInit ==
    /\ pc = "extracted"
    /\ data = NoData
    /\ ctx \in DeinterleaveContexts
    /\ lctx = ZeroContext
    /\ prc = NoProbeReturn
    /\ hse = NoUnwind
    /\ hw = NoHardware
    /\ drv = NoDriver
    /\ call = NoCall
    /\ ret = NoReturn
    /\ get_data = NoGetData
    /\ return_code = 0
    /\ released = FALSE
    /\ pkt = NoPacket
    /\ system_ts_base = 0
    /\ reads = 0
    /\ faults = 0
    /\ stamps = <<>>
    /\ session = 1
    /\ rx = <<>>
    /\ device_list = <<>>
    /\ locals = NoLocals
    /\ audio_info \in AudioInfos(ctx)
    /\ audio_bytes = <<>>

\* One call of interleaved_audio_info_to_audio_buffer.
Deinterleave ==
    /\ pc = "extracted"
    /\ \E allocated \in BOOLEAN, stray \in StrayEntriesOf(ctx) :
          LET out == interleaved_audio_info_to_audio_buffer(ctx, audio_info,
                                                            allocated, stray)
          IN  /\ Fault(Lost(allocated))
              /\ ctx' = out.ctx
              /\ audio_bytes' = out.bytes
              /\ Returns("interleaved_audio_info_to_audio_buffer", out.rc)
    /\ pc' = "interleaved"
    /\ UNCHANGED <<data, lctx, prc, hse, hw, drv, call, get_data, return_code,
                   released, pkt, system_ts_base, reads, stamps, session, rx,
                   device_list, locals, audio_info>>

DeinterleaveNext == Deinterleave

DeinterleaveSpec == DeinterleaveInit /\ [][DeinterleaveNext]_vars

(***************************************************************************)
(* The hardware-clock branch of ff_videomaster_get_timestamp at the width  *)
(* of its fields.  A uint64_t is a sequence of Uint64Limbs digits of base  *)
(* LimbBase, lowest first; WideLimbs digits hold any product of a uint64_t *)
(* and 1000000 in full.                                                    *)
(***************************************************************************)
LimbBase == 16
Uint64Limbs == 16
WideLimbs == 22

\* n < 2^31 in len digits.
RECURSIVE Limbs(_, _)
Limbs(n, len) ==
    IF len = 0 THEN <<>>
    ELSE <<n % LimbBase>> \o Limbs(n \div LimbBase, len - 1)

\* x * m + carry in the digits of x: the product modulo LimbBase^Len(x).
RECURSIVE MulLimbs(_, _, _)
MulLimbs(x, m, carry) ==
    IF x = <<>> THEN <<>>
    ELSE LET v == x[1] * m + carry
         IN  <<v % LimbBase>> \o MulLimbs(Tail(x), m, v \div LimbBase)

\* x / d, from the highest digit down: [quotient, remainder].
RECURSIVE DivLimbs(_, _)
DivLimbs(x, d) ==
    IF x = <<>> THEN [quotient |-> <<>>, remainder |-> 0]
    ELSE LET high == DivLimbs(Tail(x), d)
             v == high.remainder * LimbBase + x[1]
         IN  [quotient |-> <<v \div d>> \o high.quotient, remainder |-> v % d]

\* x in more digits, and whether the digits from Uint64Limbs on are all 0.
Widened(x, len) == x \o [i \in 1..(len - Len(x)) |-> 0]
FitsUint64(x) == \A i \in DOMAIN x : i > Uint64Limbs => x[i] = 0

\* The tick counts the board can report: factor * 2^shift below 2^64.
RECURSIVE Doubled(_, _)
Doubled(x, shift) ==
    IF shift = 0 THEN x ELSE Doubled(MulLimbs(x, 2, 0), shift - 1)
TickFactors == {1, 27, 375}
TickShifts == 0..63
TickCounts ==
    {SubSeq(x, 1, Uint64Limbs) :
        x \in {y \in {Doubled(Limbs(m, WideLimbs), k) :
                          m \in TickFactors, k \in TickShifts} : FitsUint64(y)}}
HardwareClockFrequencies == {48000, 1000000, 27000000}

\* *timestamp = (*timestamp * 1000000) / clock_frequency in uint64_t: the
\* product is taken modulo 2^64 before it is divided.
hardware_timestamp(ticks, clock_frequency) ==
    DivLimbs(MulLimbs(ticks, 1000000, 0), clock_frequency).quotient

\* VHD_GetSlotHardwareTimestamp is about to answer.
HardwareClockInit ==
    /\ pc = "hardware_clock"
    /\ data = NoData
    /\ ctx = [ZeroContext EXCEPT
                 !.slot_handle = 1, !.has_video = TRUE,
                 !.timestamp_source = AV_VIDEOMASTER_TIMESTAMP_HARDWARE]
    /\ lctx = ZeroContext
    /\ prc = NoProbeReturn
    /\ hse = NoUnwind
    /\ hw = NoHardware
    /\ drv = NoDriver
    /\ call \in [fn : {"VHD_GetSlotHardwareTimestamp"}, h : {1},
                 res : {"NOERROR", "ERROR"}, timestamp : TickCounts,
                 clock_frequency : HardwareClockFrequencies]
    /\ ret = NoReturn
    /\ get_data = NoGetData
    /\ return_code = 0
    /\ released = FALSE
    /\ pkt = NoPacket
    /\ system_ts_base = 0
    /\ reads = 0
    /\ faults = 0
    /\ stamps = <<>>
    /\ session = 1
    /\ rx = <<>>
    /\ device_list = <<>>
    /\ locals = NoLocals
    /\ audio_info = <<>>
    /\ audio_bytes = <<>>

\* One call of ff_videomaster_get_timestamp with the hardware clock as its
\* source.
HardwareTimestamp ==
    /\ pc = "hardware_clock"
    /\ IF handle_vhd_status(call.res) # 0
       THEN /\ Returns("ff_videomaster_get_timestamp", handle_vhd_status(call.res))
            /\ UNCHANGED stamps
       ELSE /\ Returns("ff_videomaster_get_timestamp", 0)
            /\ stamps' = <<[raw |-> call.timestamp,
                            timestamp |-> hardware_timestamp(call.timestamp,
                                                             call.clock_frequency)]>>
    /\ pc' = "hardware_stamped"
    /\ UNCHANGED <<data, ctx, lctx, prc, hse, hw, drv, call, get_data,
                   return_code, released, pkt, system_ts_base, reads, faults,
                   session, rx, device_list, locals, audio_info, audio_bytes>>

HardwareClockNext == HardwareTimestamp

HardwareClockSpec == HardwareClockInit /\ [][HardwareClockNext]_vars

(***************************************************************************)
(* The linear-timecode branch of ff_videomaster_get_timestamp.  The two    *)
(* timestamp sources and the context's ltc_frame_rate are used by          *)
(* videomaster_common.c and declared by no header of the repository's      *)
(* files; the rate is taken as a whole number of frames per second.        *)
(***************************************************************************)
AV_VIDEOMASTER_TIMESTAMP_LTC_ON_BOARD == 3
AV_VIDEOMASTER_TIMESTAMP_LTC_COMPANION_CARD == 4
FloatMantissa == 16777216

\* The value a float keeps of a whole number n >= 0: n itself below 2^24,
\* above it the nearest multiple of the spacing of floats at n, a tie going
\* to the even mantissa.
RECURSIVE FloatSpacing(_, _)
FloatSpacing(n, spacing) ==
    IF n \div spacing < FloatMantissa THEN spacing
    ELSE FloatSpacing(n, 2 * spacing)
RoundToFloat(n) ==
    LET spacing == FloatSpacing(n, 1)
        mantissa == n \div spacing
        rest == n % spacing
    IN  IF 2 * rest > spacing \/ (2 * rest = spacing /\ mantissa % 2 = 1)
        THEN (mantissa + 1) * spacing
        ELSE mantissa * spacing

\* The frames counted with the minutes taken for seconds: what
\* C29_TimecodeConversion must tell from frames_of_timecode.
frames_of_timecode_without_minutes(time_code, ltc_frame_rate) ==
    ((time_code.Hour * 3600) + time_code.Minute + time_code.Second)
        * ltc_frame_rate + time_code.Frame

\* The frames of a timecode at a frame rate, before they are stored.
frames_of_timecode(time_code, ltc_frame_rate) ==
    ((time_code.Hour * 3600) + (time_code.Minute * 60) + time_code.Second)
        * ltc_frame_rate + time_code.Frame

\* total_frames, a float, and (uint64_t)((total_frames * 1000000.0) /
\* ltc_frame_rate): the product and the quotient are doubles, which hold
\* them without loss at these sizes, and the cast drops the fraction.
ltc_timestamp(time_code, ltc_frame_rate) ==
    LET total_frames == RoundToFloat(frames_of_timecode(time_code, ltc_frame_rate))
    IN  DivLimbs(MulLimbs(Limbs(total_frames, Uint64Limbs), 1000000, 0),
                 ltc_frame_rate).quotient

\* The timecodes VHD_GetSlotTimecode can report and the frame rates of the
\* context.
TimeCodes == [Hour : {0, 1, 23}, Minute : {0, 59}, Second : {0, 59},
              Frame : {0, 1, 23}]
LtcFrameRates == {24, 25, 30, 60, 240}
LtcSources == {AV_VIDEOMASTER_TIMESTAMP_LTC_ON_BOARD,
               AV_VIDEOMASTER_TIMESTAMP_LTC_COMPANION_CARD}
LtcContexts ==
    {[ltc_frame_rate |-> r]
        @@ [ZeroContext EXCEPT !.slot_handle = 1, !.has_video = TRUE,
                               !.timestamp_source = source] :
        r \in LtcFrameRates, source \in LtcSources}

\* VHD_GetSlotTimecode is about to answer.
LtcInit ==
    /\ pc = "ltc"
    /\ data = NoData
    /\ ctx \in LtcContexts
    /\ lctx = ZeroContext
    /\ prc = NoProbeReturn
    /\ hse = NoUnwind
    /\ hw = NoHardware
    /\ drv = NoDriver
    /\ call \in [fn : {"VHD_GetSlotTimecode"}, h : {1},
                 res : {"NOERROR", "ERROR"}, time_code : TimeCodes]
    /\ ret = NoReturn
    /\ get_data = NoGetData
    /\ return_code = 0
    /\ released = FALSE
    /\ pkt = NoPacket
    /\ system_ts_base = 0
    /\ reads = 0
    /\ faults = 0
    /\ stamps = <<>>
    /\ session = 1
    /\ rx = <<>>
    /\ device_list = <<>>
    /\ locals = NoLocals
    /\ audio_info = <<>>
    /\ audio_bytes = <<>>

\* One call of ff_videomaster_get_timestamp with a linear timecode as its
\* source.
LtcTimestamp ==
    /\ pc = "ltc"
    /\ IF handle_vhd_status(call.res) # 0
       THEN /\ Returns("ff_videomaster_get_timestamp", handle_vhd_status(call.res))
            /\ UNCHANGED stamps
       ELSE /\ Returns("ff_videomaster_get_timestamp", 0)
            /\ stamps' = <<[raw |-> call.time_code,
                            timestamp |-> ltc_timestamp(call.time_code,
                                                        ctx.ltc_frame_rate)]>>
    /\ pc' = "ltc_stamped"
    /\ UNCHANGED <<data, ctx, lctx, prc, hse, hw, drv, call, get_data,
                   return_code, released, pkt, system_ts_base, reads, faults,
                   session, rx, device_list, locals, audio_info, audio_bytes>>

LtcNext == LtcTimestamp

LtcSpec == LtcInit /\ [][LtcNext]_vars

(***************************************************************************)
(* The decoding of one audio info-frame and AES status word by             *)
(* get_audio_stream_properties_from_audio_infoframe, on its own: sample    *)
(* size, sample rate, channel count, codec and extraction format.          *)
(***************************************************************************)
\* Every pair VHD_GetSlotDvAudioInfo can report, each field with the codes
\* the tables tell apart and one they do not know.
InfoFrames ==
    [audio_type : {"PCM"},
     CodingType : {"PCM", "REF_STREAM_HEADER", "AC3"},
     SampleSize : {"16_BITS", "20_BITS", "24_BITS", "REF_STREAM_HEADER", "OTHER"},
     SamplingFrequency : {"32000HZ", "44100HZ", "48000HZ", "88200HZ", "96000HZ",
                          "176400HZ", "192000HZ", "REF_STREAM_HEADER", "OTHER"},
     ChannelCount : {2, CHANNEL_COUNT_REF_STREAM_HEADER, 9}]
AesStatuses ==
    [LinearPCM : {"LINEAR_PCM_SAMPLE", "OTHER"},
     MaxWordLengthSize : {"20BITS", "24BITS", "OTHER"},
     SamplingFrequency : {"32000HZ", "44100HZ", "48000HZ", "88200HZ", "96000HZ",
                          "176000HZ", "192000HZ", "OTHER"},
     ChannelNb : {2}]

\* VHD_GetSlotDvAudioInfo has answered with a pair.
AudioDecodeInit ==
    /\ pc = "audio_info"
    /\ data = NoData
    /\ ctx = [ZeroContext EXCEPT !.board_handle = 1, !.stream_handle = 1,
                                 !.slot_handle = 1]
    /\ lctx = ZeroContext
    /\ prc = NoProbeReturn
    /\ hse = NoUnwind
    /\ hw = NoHardware
    /\ drv = NoDriver
    /\ call \in [fn : {"VHD_GetSlotDvAudioInfo"}, h : {1}, res : {"NOERROR"},
                 frame : InfoFrames, aes : AesStatuses]
    /\ ret = NoReturn
    /\ get_data = NoGetData
    /\ return_code = 0
    /\ released = FALSE
    /\ pkt = NoPacket
    /\ system_ts_base = 0
    /\ reads = 0
    /\ faults = 0
    /\ stamps = <<>>
    /\ session = 1
    /\ rx = <<>>
    /\ device_list = <<>>
    /\ locals = NoLocals
    /\ audio_info = <<>>
    /\ audio_bytes = <<>>

\* The four tables in the order of the probe and the extraction format.
DecodeAudio ==
    /\ pc = "audio_info"
    /\ LET decoded == DecodedAudio(ctx, call.frame, call.aes)
       IN  /\ ctx' = decoded.ctx
           /\ Returns("get_audio_stream_properties_from_audio_infoframe",
                      decoded.rc)
    /\ pc' = "audio_decoded"
    /\ UNCHANGED <<data, lctx, prc, hse, hw, drv, call, get_data, return_code,
                   released, pkt, system_ts_base, reads, faults, stamps,
                   session, rx, device_list, locals, audio_info, audio_bytes>>

AudioDecodeNext == DecodeAudio

AudioDecodeSpec == AudioDecodeInit /\ [][AudioDecodeNext]_vars

(***************************************************************************)
(* ff_videomaster_get_channel_type_from_index on its own, for every        *)
(* channel-type code of the driver and every outcome of its query.         *)
(***************************************************************************)
\* VHD_GetChannelProperty(VHD_CORE_CP_TYPE) is about to answer for a channel
\* of an open board.
ChannelTypeInit ==
    /\ pc = "channel_type"
    /\ data = NoData
    /\ ctx \in {[ZeroContext EXCEPT !.board_handle = 1, !.channel_index = i,
                                    !.channel_type = "UNKNOWN"] : i \in {0, 1}}
    /\ lctx = ZeroContext
    /\ prc = NoProbeReturn
    /\ hse = NoUnwind
    /\ hw \in {[NoHardware EXCEPT !.chn_code = code] : code \in ChannelCodes}
    /\ drv = NoDriver
    /\ call \in {Call("VHD_GetChannelProperty", 1, st) : st \in VhdStatus}
    /\ ret = NoReturn
    /\ get_data = NoGetData
    /\ return_code = 0
    /\ released = FALSE
    /\ pkt = NoPacket
    /\ system_ts_base = 0
    /\ reads = 0
    /\ faults = 0
    /\ stamps = <<>>
    /\ session = 1
    /\ rx = <<>>
    /\ device_list = <<>>
    /\ locals = NoLocals
    /\ audio_info = <<>>
    /\ audio_bytes = <<>>

\* One call of ff_videomaster_get_channel_type_from_index; the caller keeps
\* the value in channel_type.
ClassifyChannel ==
    /\ pc = "channel_type"
    /\ ctx' = [ctx EXCEPT !.channel_type =
                  ff_videomaster_get_channel_type_from_index(hw.chn_code, call.res)]
    /\ Returns("ff_videomaster_get_channel_type_from_index", 0)
    /\ pc' = "classified"
    /\ UNCHANGED <<data, lctx, prc, hse, hw, drv, call, get_data, return_code,
                   released, pkt, system_ts_base, reads, faults, stamps,
                   session, rx, device_list, locals, audio_info, audio_bytes>>

ChannelTypeNext == ClassifyChannel

ChannelTypeSpec == ChannelTypeInit /\ [][ChannelTypeNext]_vars

(***************************************************************************)
(* The branch of ff_videomaster_get_video_stream_properties for a channel  *)
(* that is not HDMI, on its own, with the outputs the session model leaves *)
(* out: width, height, interlaced and the frame-rate numerator.            *)
(***************************************************************************)
\* What VHD_GetVideoCharacteristics answers for the video standard of the
\* channel.
VideoCharacteristics ==
    {[width |-> 1920, height |-> 1080, interlaced |-> FALSE, frame_rate |-> 60],
     [width |-> 1920, height |-> 1080, interlaced |-> TRUE, frame_rate |-> 30],
     [width |-> 1280, height |-> 720, interlaced |-> FALSE, frame_rate |-> 50],
     [width |-> 3840, height |-> 2160, interlaced |-> FALSE, frame_rate |-> 24]}
\* The outputs of the caller, zeroed with its context.
NoVideoOutputs ==
    [video_width |-> 0, video_height |-> 0, video_interlaced |-> FALSE,
     video_frame_rate_num |-> 0]

\* The function is called on an open board; the channel has its code, its
\* clock divisor and the characteristics of its standard.
SdiVideoInit ==
    /\ pc = "sdi_video"
    /\ data = NoData
    /\ ctx = NoVideoOutputs @@ [ZeroContext EXCEPT !.board_handle = 1,
                                                   !.channel_type = "UNKNOWN"]
    /\ lctx = ZeroContext
    /\ prc = NoProbeReturn
    /\ hse = NoUnwind
    /\ hw \in {[NoHardware EXCEPT !.chn_code = code, !.clock_divisor = divisor] :
                  code \in {"HDSDI", "12GSDI", "3GSDI_ASI", "DISPLAYPORT"},
                  divisor \in ClockDivisors}
    /\ drv = NoDriver
    /\ call \in {[fn |-> "VHD_GetVideoCharacteristics", h |-> 1, res |-> st,
                  characteristics |-> v] :
                    st \in VhdOkErr, v \in VideoCharacteristics}
    /\ ret = NoReturn
    /\ get_data = NoGetData
    /\ return_code = 0
    /\ released = FALSE
    /\ pkt = NoPacket
    /\ system_ts_base = 0
    /\ reads = 0
    /\ faults = 0
    /\ stamps = <<>>
    /\ session = 1
    /\ rx = <<>>
    /\ device_list = <<>>
    /\ locals = NoLocals
    /\ audio_info = <<>>
    /\ audio_bytes = <<>>

\* One call of ff_videomaster_get_video_stream_properties: the statuses of
\* the driver are dropped, a failed VHD_GetVideoCharacteristics leaves its
\* outputs and the local frame_rate (0) as they were.  The frame rates of
\* the video standards are far from the width of the product.
SdiVideoProperties ==
    /\ pc = "sdi_video"
    /\ LET answered == call.res = "NOERROR"
           v == call.characteristics
           frame_rate == IF answered THEN v.frame_rate ELSE 0
       IN  ctx' = [ctx EXCEPT
                      !.channel_type =
                          ff_videomaster_get_channel_type_from_index(
                              hw.chn_code, "NOERROR"),
                      !.video_width = IF answered THEN v.width ELSE @,
                      !.video_height = IF answered THEN v.height ELSE @,
                      !.video_interlaced = IF answered THEN v.interlaced ELSE @,
                      !.video_frame_rate_num = frame_rate * 1000,
                      !.video_frame_rate_den =
                          SdiFrameRateDen(hw.clock_divisor, @)]
    /\ Returns("ff_videomaster_get_video_stream_properties", 0)
    /\ pc' = "sdi_video_done"
    /\ UNCHANGED <<data, lctx, prc, hse, hw, drv, call, get_data, return_code,
                   released, pkt, system_ts_base, reads, faults, stamps,
                   session, rx, device_list, locals, audio_info, audio_bytes>>

SdiVideoNext == SdiVideoProperties

SdiVideoSpec == SdiVideoInit /\ [][SdiVideoNext]_vars

(***************************************************************************)
(* Properties of the slot cycle.                                           *)
(***************************************************************************)
\* The last step was the video turn of read_packet.
VideoTurnDone ==
    pc = "idle" /\ ret.op = "read_packet" /\ call.fn = "VHD_LockSlotHandle"

\* C1: when ff_videomaster_get_data finds VHD_LockSlotHandle timed out it
\* returns AVERROR(EAGAIN), when the lock failed otherwise AVERROR(EIO); in
\* both cases no buffer is extracted, the driver holds no new slot and
\* slot_handle is what it was.
C1_LockFailure ==
    [][(pc = "idle" /\ call'.fn = "VHD_LockSlotHandle" /\ call'.res # "NOERROR")
          => /\ get_data'.rc = IF call'.res = "TIMEOUT"
                               THEN AVERROR_EAGAIN
                               ELSE AVERROR_EIO
             /\ ctx'.video_buffer = ctx.video_buffer
             /\ ctx'.audio_buffer = ctx.audio_buffer
             /\ ctx'.audio_buffer_size = ctx.audio_buffer_size
             /\ ctx'.slot_handle = ctx.slot_handle
             /\ drv'.slots = drv.slots]_vars

\* A fetch on an idle slot timed out and was answered with EAGAIN.
C1_Witness ==
    /\ VideoTurnDone
    /\ call.res = "TIMEOUT"
    /\ get_data = [lock_slot_status |-> AVERROR_EAGAIN, rc |-> AVERROR_EAGAIN,
                   failed |-> "none"]
    /\ ctx.slot_handle = NULL
    /\ drv.slots = <<>>

\* C2: a read_packet whose slot lock timed out returns AVERROR(EAGAIN) to
\* its caller.
C2_TimeoutReachesCaller ==
    (VideoTurnDone /\ call.res = "TIMEOUT") => ret.rc = AVERROR_EAGAIN

\* C3: the read_packet that follows a read_packet whose fetch failed locks a
\* slot again and fills no audio packet.
C3_RetryAfterFailedFetch ==
    [][(VideoTurnDone /\ get_data.rc # 0 /\ reads' = reads + 1)
          => (call'.fn = "VHD_LockSlotHandle" /\ pkt'.kind # "audio")]_vars

\* C4: the driver never has more than one slot locked and not unlocked, and
\* no lock is issued while one is.
C4_OneSlotOutstanding ==
    [][/\ Cardinality(Outstanding(drv')) <= 1
       /\ (call'.fn = "VHD_LockSlotHandle" /\ call'.res = "NOERROR")
             => Outstanding(drv) = {}]_vars

\* C5: when the extraction failed after the slot was locked, the next
\* read_packet or read_close leaves slot_handle NULL and that slot unlocked
\* exactly once.
C5_FailedExtractionReleased ==
    [][(/\ VideoTurnDone
        /\ get_data.lock_slot_status = 0
        /\ get_data.rc # 0
        /\ (reads' = reads + 1 \/ pc' \in {"close_stop", "closed"}))
          => /\ ctx'.slot_handle = NULL
             /\ drv'.slots[ctx.slot_handle].unlocks = 1]_vars

\* C6: ff_videomaster_release_data run a second time issues no driver call,
\* returns 0 and changes neither the context nor the driver's slots, whatever
\* the first run unlocked and whatever the driver answered.
C6_ReleaseIdempotent ==
    \A st1 \in VhdOkErr, st2 \in VhdOkErr :
       LET first == ff_videomaster_release_data(ctx, drv, st1)
           second == ff_videomaster_release_data(first.ctx, first.drv, st2)
       IN  /\ second.call = NoCall
           /\ second.rc = 0
           /\ second.ctx = first.ctx
           /\ second.drv = first.drv

\* read_close has run ff_videomaster_release_data right after the audio turn
\* of read_packet had unlocked the slot with it.
C6_Witness ==
    /\ pc = "close_stop"
    /\ released
    /\ call = NoCall
    /\ ret.op = "read_packet"
    /\ ret.rc \in {0, AVERROR_EIO}
    /\ ctx.return_video_next
    /\ ctx.slot_handle = NULL
    /\ drv.slots # <<>>
    /\ drv.slots[Len(drv.slots)].unlocks = 1

(***************************************************************************)
(* Properties of the handles.                                              *)
(***************************************************************************)
\* C7: once read_close has returned, the board handle was closed exactly
\* once and no stream handle is left open.
C7_ClosedAfterReadClose ==
    (pc = "closed" /\ ret.op = "read_close")
       => /\ \A b \in DOMAIN drv.boards : drv.boards[b].closes = 1
          /\ \A s \in DOMAIN drv.streams : drv.streams[s].closes >= 1

\* C8: a slot is outstanding only on an open stream handle and a stream
\* handle is open only on an open board handle.
C8_Nested ==
    /\ \A s \in Outstanding(drv) : drv.slots[s].stream \in OpenStreams(drv)
    /\ \A s \in OpenStreams(drv) : drv.streams[s].board \in OpenBoards(drv)

\* C9: when read_header has returned an error after the board handle was
\* opened, every board and stream handle opened was closed exactly once, and
\* no board handle was closed while a stream handle was open.
C9_HeaderErrorCleanup ==
    []((pc = "failed" /\ ret.op = "read_header" /\ ret.rc # 0)
          => /\ \A b \in DOMAIN drv.boards : drv.boards[b].closes = 1
             /\ \A s \in DOMAIN drv.streams : drv.streams[s].closes = 1)
       /\ [][(pc = "hdr_close_board" /\ call'.fn = "VHD_CloseBoardHandle")
                => OpenStreams(drv) = {}]_vars

\* read_header failed to start the stream it had opened and returned.
C9_Witness ==
    /\ pc = "failed"
    /\ ret = [op |-> "read_header", rc |-> AVERROR_EIO]
    /\ call.fn = "VHD_CloseBoardHandle"
    /\ Len(drv.boards) = 1
    /\ drv.streams # <<>>
    /\ \A s \in DOMAIN drv.streams : drv.streams[s].closes = 1

\* The configuration errors the session has met.
ConfigurationError ==
    \/ ctx.board_index >= ctx.number_of_boards
    \/ (ctx.board_handle # NULL /\ ctx.nb_rx_channels > 0
          /\ ctx.channel_index >= ctx.nb_rx_channels)
    \/ (ctx.timestamp_source = AV_VIDEOMASTER_TIMESTAMP_HARDWARE
          /\ hw.timestamp_cap = "unsupported")
    \/ (ctx.channel_type = "HDMI"
          /\ hw.coding_type \notin {"unread", "PCM", "REF_STREAM_HEADER"})
    \/ (ctx.channel_type = "SDI"
          /\ hw.clock_divisor \notin {"unread", "VHD_CLOCKDIV_1", "VHD_CLOCKDIV_1001"})

\* C10: read_header does not return 0 from a session that met a configuration
\* error, and no stream is started when it returns.
C10_ConfigurationErrorAborts ==
    (ret.op = "read_header" /\ ConfigurationError)
       => /\ ret.rc # 0
          /\ \A s \in DOMAIN drv.streams : ~drv.streams[s].started

(***************************************************************************)
(* Properties of the timestamp sources.                                    *)
(***************************************************************************)
\* C11: when read_header has failed because the hardware timestamp source
\* was selected on a board that does not support it, no VHD_StartStream was
\* issued on any stream handle of the session.
C11_UnsupportedHardwareBeforeStart ==
    (/\ pc = "failed"
     /\ ret.op = "read_header"
     /\ ctx.timestamp_source = AV_VIDEOMASTER_TIMESTAMP_HARDWARE
     /\ hw.timestamp_cap = "unsupported")
       => \A s \in DOMAIN drv.streams : drv.streams[s].starts = 0

\* C12: with the system clock as the source, the first reading of a session
\* is normalized to 0 and the second to the second raw time minus the first.
C12_SystemClockNormalized ==
    ctx.timestamp_source = AV_VIDEOMASTER_TIMESTAMP_SYSTEM
       => /\ (Len(stamps) >= 1 => stamps[1].timestamp = 0)
          /\ (Len(stamps) >= 2
                => stamps[2].timestamp = stamps[2].raw - stamps[1].raw)

\* C13: with the oscillator as the source, every reading is the time the
\* driver reported for the slot, unchanged.
C13_OscillatorNotRebased ==
    ctx.timestamp_source = AV_VIDEOMASTER_TIMESTAMP_OSCILLATOR
       => \A i \in DOMAIN stamps : stamps[i].timestamp = stamps[i].raw

(***************************************************************************)
(* Properties of the audio schema.                                         *)
(***************************************************************************)
\* read_header has returned 0 and no read_packet has run yet.
HeaderDone == pc = "idle" /\ ret = [op |-> "read_header", rc |-> 0]

\* C14: when the info-frame of an HDMI channel reported no audio type, the
\* session leaves read_header without audio: has_audio is false and no
\* audio stream was created.
C14_NoAudioTypeNoAudio ==
    (HeaderDone /\ ctx.channel_type = "HDMI" /\ hw.audio_type = "NONE")
       => (~ctx.has_audio /\ ~ctx.audio_stream)

\* C15: on an SDI channel the session has audio exactly when none of the
\* three audio options was left unknown.
C15_SdiAudioFromOptions ==
    (HeaderDone /\ ctx.channel_type = "SDI")
       => (ctx.has_audio <=> /\ data.nb_channels # -1
                             /\ data.sample_rate # AV_VIDEOMASTER_SAMPLE_RATE_UNKNOWN
                             /\ data.sample_size # AV_VIDEOMASTER_SAMPLE_SIZE_UNKNOWN)

\* C16: when read_header has succeeded with has_audio set, the audio codec
\* is PCM_S16LE for a sample size of 16 and PCM_S24LE for one of 20 or 24.
C16_AudioCodecIsPcm ==
    (pc = "idle" /\ ctx.has_audio /\ ctx.channel_type \in {"HDMI", "SDI"})
       => \/ ctx.audio_sample_size = 16 /\ ctx.audio_codec = "PCM_S16LE"
          \/ ctx.audio_sample_size \in {20, 24} /\ ctx.audio_codec = "PCM_S24LE"

\* The info-frame the probe read has a coding type the codec resolution does
\* not support: neither PCM nor the reference to the stream header, or that
\* reference with a status word that is not linear PCM.
UnsupportedCoding ==
    /\ hw.audio_type \notin {"unread", "NONE"}
    /\ \/ hw.coding_type \notin {"PCM", "REF_STREAM_HEADER"}
       \/ /\ hw.coding_type = "REF_STREAM_HEADER"
          /\ hw.linear_pcm # "LINEAR_PCM_SAMPLE"

\* C17: for an unsupported coding the resolution ends with an error (the
\* probe goes to its early return with a non-zero code, never on to the
\* unlock of the success path) and the audio codec stays NONE.
C17_UnsupportedCodingRefused ==
    UnsupportedCoding
       => /\ ctx.audio_codec = "NONE"
          /\ pc # "probe_unlock"
          /\ (pc = "probe_stop" => (prc.final /\ prc.rc # 0))

\* The probe read a reference to the stream header with a status word that
\* is not linear PCM: size, rate and channel count were resolved, the codec
\* was refused.
C17_Witness ==
    /\ pc = "probe_stop"
    /\ hw.coding_type = "REF_STREAM_HEADER"
    /\ hw.linear_pcm = "OTHER"
    /\ ctx.audio_sample_size = 24
    /\ ctx.audio_nb_channels = 2
    /\ ctx.audio_codec = "NONE"
    /\ prc = [rc |-> AVERROR_EINVAL, final |-> TRUE]

(***************************************************************************)
(* Properties of the channel classification and of the fetch.              *)
(***************************************************************************)
\* C18: on a channel whose type code is none of the recognized ones, so
\* that the classification yields UNKNOWN, no video or audio is resolved, no
\* stream handle is opened and no stream is started.
C18_UnknownChannelStops ==
    (hw.chn_code = "DISPLAYPORT" /\ ctx.channel_type = "UNKNOWN")
       => /\ ~ctx.has_video
          /\ ~ctx.has_audio
          /\ drv.streams = <<>>

\* C19: when a driver extraction call fails in ff_videomaster_get_data with
\* the slot locked, the fetch returns AVERROR(EIO).
C19_ExtractionFailureIsEio ==
    (VideoTurnDone /\ get_data.lock_slot_status = 0 /\ get_data.failed # "none")
       => get_data.rc = AVERROR_EIO

\* C20: when ff_videomaster_create_devices_infos_from_board_index has returned
\* 0 for a board, the device list holds exactly one descriptor for each of the
\* board's receive channels that carries a signal, and none for the others.
\* A channel whose status the driver failed to report is let off.
C20_OneDescriptorPerLockedChannel ==
    (pc = "enum_return" /\ ret = [op |-> "create_devices_infos", rc |-> 0])
       => \A ch \in DOMAIN rx :
             rx[ch].status # "failed" =>
                Cardinality(Descriptors(ctx.board_index, ch - 1))
                   = IF rx[ch].locked THEN 1 ELSE 0

\* C21: when resolving or adding the device info of a locked channel has
\* failed with an I/O error or an allocation failure,
\* ff_videomaster_create_devices_infos_from_board_index returns a negative
\* code; it returns 0 only when nothing failed.
C21_EnumerationFailureReturned ==
    (pc = "enum_return" /\ ret.op = "create_devices_infos"
     /\ locals.av_error \in {AVERROR_EIO, AVERROR_ENOMEM})
       => ret.rc < 0

\* C22: of two packets returned by successive successful read_packet calls
\* the later one has a pts that is not below the earlier one's, and an audio
\* packet that follows its video packet has the video pts plus 1.  A frame
\* whose clock reading equals the reading of the frame before is let off, and
\* so are a session in which the clock has read 0 and the packets returned
\* before the first video packet that was stamped.
C22_PacketTimestampsMonotonic ==
    [][(/\ pc = "idle" /\ reads' = reads + 1
        /\ pkt.kind # "none" /\ pkt'.kind # "none"
        /\ stamps # <<>>
        /\ stamps' # stamps => stamps'[Len(stamps')].raw > LastRaw
        /\ \A i \in DOMAIN stamps' : stamps'[i].raw > 0)
          => /\ pkt'.pts >= pkt.pts
             /\ (pkt.kind = "video" /\ pkt'.kind = "audio")
                   => pkt'.pts = pkt.pts + 1]_vars

\* C23: whenever the HDMI audio probe is about to stop its stream, the slot
\* it locked has been handed back to the driver.  Stated for the exit paths
\* on which nothing failed: the success and the info-frame without audio.
C23_ProbeUnlocksBeforeStop ==
    (pc = "probe_stop" /\ prc.rc = 0) => Outstanding(drv) = {}

\* C24: a property resolver that is given no stream handle leaves no stream
\* handle open: during an enumeration, whose context has no stream handle,
\* no stream handle is open once a resolver has returned.
C24_TransientHandleClosed ==
    OpenStreams(drv) = {}

\* C25: when ff_videomaster_start_stream starts the stream of a session whose
\* timestamp source is the hardware clock, the board's system time clock
\* type has been set, to the oscillator's or to the system clock's type.
\* Stated for a channel the driver reports as SDI.
C25_HardwareSourceSetsClockType ==
    [][(/\ pc = "hdr_start"
        /\ hw.chn_code = "12GSDI" /\ ctx.channel_type = "SDI"
        /\ ctx.timestamp_source = AV_VIDEOMASTER_TIMESTAMP_HARDWARE
        /\ call'.fn = "VHD_StartStream")
          => drv'.clk_type \in {"VHD_ST_CLK_TYPE_MONOTONIC_RAW",
                                "VHD_ST_CLK_TYPE_REALTIME"}]_vars

\* The destination channel (from 0) the first lane of pair q is copied to:
\* two channels for every STEREO pair before it, one for every other pair.
FirstChannel(q) ==
    LET before == {p \in 1..(q - 1) : audio_info[p].Mode = "VHD_AM_STEREO"}
    IN  (q - 1) + Cardinality(before)

\* The bytes of the sample of destination channel channel_index at
\* sample_index, and the bytes a pair's buffer holds from an offset on.
OutputSample(sample_index, channel_index) ==
    LET bytes_per_sample == ctx.audio_sample_size \div 8
        first == (sample_index * ctx.audio_nb_channels + channel_index)
                    * bytes_per_sample
    IN  [b \in 1..bytes_per_sample |-> audio_bytes[first + b]]
SourceSample(q, offset) ==
    [b \in 1..(ctx.audio_sample_size \div 8) |-> audio_info[q].pData[offset + b]]

\* C26: in the interleaved buffer, for every pair with a buffer and every
\* sample index below the pair's sample count, a STEREO pair gives its left
\* lane (offset sample_index * 2 * bytes_per_sample) to its first
\* destination channel and its right lane (+ bytes_per_sample) to the next,
\* and a MONO pair gives offset sample_index * bytes_per_sample to its one
\* destination channel.
C26_DeinterleaverLayout ==
    (pc = "interleaved" /\ ret.rc = 0)
       => \A q \in DOMAIN audio_info :
             LET pair == audio_info[q]
                 bytes_per_sample == ctx.audio_sample_size \div 8
                 first == FirstChannel(q)
             IN  (pair.present /\ first < ctx.audio_nb_channels)
                    => \A i \in 0..(samples_in_channel(pair, bytes_per_sample) - 1) :
                          IF pair.Mode = "VHD_AM_STEREO"
                          THEN /\ OutputSample(i, first)
                                     = SourceSample(q, i * 2 * bytes_per_sample)
                               /\ first + 1 < ctx.audio_nb_channels
                                     => OutputSample(i, first + 1)
                                           = SourceSample(q, i * 2 * bytes_per_sample
                                                                + bytes_per_sample)
                          ELSE OutputSample(i, first)
                                  = SourceSample(q, i * bytes_per_sample)

\* Three channels of two 16-bit samples, from a STEREO pair and the MONO
\* pair init_audio_info puts after it, interleaved.
C26_Witness ==
    /\ pc = "interleaved" /\ ret.rc = 0
    /\ ctx.audio_nb_channels = 3 /\ ctx.audio_sample_size = 16
    /\ audio_info[1] = AudioPair(0, "VHD_AM_STEREO", 8, TRUE)
    /\ audio_info[2] = AudioPair(1, "VHD_AM_MONO", 4, TRUE)
    /\ audio_bytes = <<101, 102, 103, 104, 201, 202,
                       105, 106, 107, 108, 203, 204>>

\* C27: in the interleaved buffer every byte that was copied is a byte of a
\* pair's buffer, from inside its DataSize, and the bytes of a channel whose
\* pair has no buffer are zero.
C27_DeinterleaverBounds ==
    (pc = "interleaved" /\ ret.rc = 0)
       => /\ \A k \in DOMAIN audio_bytes :
                audio_bytes[k] # 0
                   => \E q \in DOMAIN audio_info :
                         /\ audio_info[q].present
                         /\ \E o \in 1..audio_info[q].DataSize :
                               audio_bytes[k] = audio_info[q].pData[o]
          /\ \A q \in DOMAIN audio_info :
                (~audio_info[q].present /\ FirstChannel(q) < ctx.audio_nb_channels)
                   => \A i \in 0..((Len(audio_bytes)
                                       \div (ctx.audio_nb_channels
                                                * (ctx.audio_sample_size \div 8))) - 1) :
                         \A b \in DOMAIN OutputSample(i, FirstChannel(q)) :
                            OutputSample(i, FirstChannel(q))[b] = 0

\* C28: with the hardware clock as source, whenever clock_frequency divides
\* ticks * 1000000 evenly, the timestamp returned is exactly
\* ticks * 1000000 / clock_frequency.
C28_HardwareClockExact ==
    (/\ pc = "hardware_stamped" /\ ret.rc = 0
     /\ DivLimbs(MulLimbs(Widened(call.timestamp, WideLimbs), 1000000, 0),
                 call.clock_frequency).remainder = 0)
       => Widened(stamps[1].timestamp, WideLimbs)
             = DivLimbs(MulLimbs(Widened(call.timestamp, WideLimbs), 1000000, 0),
                        call.clock_frequency).quotient

\* ((hour * 3600 + minute * 60 + second) * r + frame) * 1000000 / r, the
\* fraction dropped, for the timecode and the rate of the state.
ExactTimecodeMicroseconds ==
    DivLimbs(MulLimbs(Limbs(((call.time_code.Hour * 3600)
                              + (call.time_code.Minute * 60)
                              + call.time_code.Second) * ctx.ltc_frame_rate
                             + call.time_code.Frame, Uint64Limbs),
                      1000000, 0),
             ctx.ltc_frame_rate).quotient

PcmCoding ==
    \/ call.frame.CodingType = "PCM"
    \/ /\ call.frame.CodingType = "REF_STREAM_HEADER"
       /\ call.aes.LinearPCM = "LINEAR_PCM_SAMPLE"

\* The sample size of the pair of the state: that of the info-frame, or that
\* of the status word where the info-frame refers to the stream header; 0
\* when neither gives one.
ResolvedSampleSize ==
    CASE call.frame.SampleSize = "16_BITS" -> 16
      [] call.frame.SampleSize = "20_BITS" -> 20
      [] call.frame.SampleSize = "24_BITS" -> 24
      [] call.frame.SampleSize = "REF_STREAM_HEADER"
            /\ call.aes.MaxWordLengthSize = "20BITS" -> 20
      [] call.frame.SampleSize = "REF_STREAM_HEADER"
            /\ call.aes.MaxWordLengthSize = "24BITS" -> 24
      [] OTHER -> 0

\* C30: for every info-frame and status word with a PCM coding whose sample
\* size resolves to 16, 20 or 24, the codec table answers PCM_S16LE for 16
\* and PCM_S24LE for 20 and 24; and once the probe has decoded the pair, the
\* context holds that sample size and codec and the extraction format of 16
\* bits for 16 and of 24 bits for 20 and 24.
C30_PcmCodecAndFormat ==
    (call.fn = "VHD_GetSlotDvAudioInfo" /\ PcmCoding
     /\ ResolvedSampleSize \in {16, 20, 24})
       => /\ get_codec_from_audio_infoframe_and_aes_status(
                 call.frame, call.aes, "NONE")
                = [rc |-> 0,
                   codec |-> IF ResolvedSampleSize = 16 THEN "PCM_S16LE"
                             ELSE "PCM_S24LE"]
          /\ (pc = "audio_decoded" /\ ret.rc = 0)
                => /\ ctx.audio_sample_size = ResolvedSampleSize
                   /\ ctx.audio_codec = IF ResolvedSampleSize = 16
                                        THEN "PCM_S16LE" ELSE "PCM_S24LE"
                   /\ ctx.audio_format = IF ResolvedSampleSize = 16
                                         THEN 16 ELSE 24

\* A stream header of linear PCM whose status word gives 20 bits, decoded.
C30_Witness ==
    /\ pc = "audio_decoded" /\ ret.rc = 0
    /\ call.frame.CodingType = "REF_STREAM_HEADER"
    /\ call.frame.SampleSize = "REF_STREAM_HEADER"
    /\ call.aes.LinearPCM = "LINEAR_PCM_SAMPLE"
    /\ call.aes.MaxWordLengthSize = "20BITS"
    /\ ctx.audio_sample_size = 20
    /\ ctx.audio_codec = "PCM_S24LE"
    /\ ctx.audio_format = 24

\* The sample rates of the info-frame codes and of the status-word codes, in
\* Hz.
InfoFrameRates ==
    [c \in {"32000HZ", "44100HZ", "48000HZ", "88200HZ", "96000HZ", "176400HZ",
            "192000HZ"} |->
        CASE c = "32000HZ" -> 32000 [] c = "44100HZ" -> 44100
          [] c = "48000HZ" -> 48000 [] c = "88200HZ" -> 88200
          [] c = "96000HZ" -> 96000 [] c = "176400HZ" -> 176400
          [] c = "192000HZ" -> 192000]
StatusWordRates ==
    [c \in {"32000HZ", "44100HZ", "48000HZ", "88200HZ", "96000HZ", "176000HZ",
            "192000HZ"} |->
        CASE c = "32000HZ" -> 32000 [] c = "44100HZ" -> 44100
          [] c = "48000HZ" -> 48000 [] c = "88200HZ" -> 88200
          [] c = "96000HZ" -> 96000 [] c = "176000HZ" -> 176400
          [] c = "192000HZ" -> 192000]

\* C31: the sample-rate table gives each of the seven info-frame codes its
\* rate, sends the code that refers to the stream header through the
\* status-word table to the same seven rates (the code named 176000 giving
\* 176400), and answers an error for every other code of either table; a
\* pair the probe decodes to the end leaves that rate in the context.
C31_SampleRateTable ==
    call.fn = "VHD_GetSlotDvAudioInfo"
       => LET code == call.frame.SamplingFrequency
              word == call.aes.SamplingFrequency
              rate == get_sample_rate_from_audio_infoframe_and_aes_status(
                          call.frame, call.aes, 0)
              expected ==
                  CASE code \in DOMAIN InfoFrameRates -> InfoFrameRates[code]
                    [] code = "REF_STREAM_HEADER" /\ word \in DOMAIN StatusWordRates ->
                          StatusWordRates[word]
                    [] OTHER -> 0
          IN  /\ expected # 0 => rate = [rc |-> 0, sample_rate |-> expected]
              /\ expected = 0 => rate.rc = AVERROR_EINVAL
              /\ (pc = "audio_decoded" /\ ret.rc = 0)
                    => (expected # 0 /\ ctx.audio_sample_rate = expected)

\* The status word's code named 176000, decoded to 176400 Hz.
C31_Witness ==
    /\ pc = "audio_decoded" /\ ret.rc = 0
    /\ call.frame.SamplingFrequency = "REF_STREAM_HEADER"
    /\ call.aes.SamplingFrequency = "176000HZ"
    /\ ctx.audio_sample_rate = 176400

\* C32: the classification of a channel is HDMI for the HDMI TMDS and FRL
\* codes, SDI for the HD, 3G and 12G SDI codes, ASISDI for the 3G and 12G
\* SDI-ASI codes and UNKNOWN for every other code and whenever the query for
\* the type fails; it is one of these four for every code and outcome.
C32_ChannelClassification ==
    pc = "classified"
       => ctx.channel_type =
             CASE call.res # "NOERROR" -> "UNKNOWN"
               [] call.res = "NOERROR"
                    /\ hw.chn_code \in {"HDMI_TMDS", "HDMI_FRL3", "HDMI_FRL4",
                                        "HDMI_FRL5", "HDMI_FRL6"} -> "HDMI"
               [] call.res = "NOERROR"
                    /\ hw.chn_code \in {"HDSDI", "3GSDI", "12GSDI"} -> "SDI"
               [] call.res = "NOERROR"
                    /\ hw.chn_code \in {"3GSDI_ASI", "12GSDI_ASI"} -> "ASISDI"
               [] OTHER -> "UNKNOWN"

\* A 12G-SDI channel whose query failed, classified UNKNOWN.
C32_Witness ==
    /\ pc = "classified"
    /\ hw.chn_code = "12GSDI"
    /\ call.res # "NOERROR"
    /\ ctx.channel_type = "UNKNOWN"

\* C33: for a channel that is not HDMI the function returns 0 whatever the
\* clock divisor; where the driver gave the characteristics of the standard,
\* width, height and the interlaced flag are those and the numerator is the
\* frame rate times 1000; the denominator is 1000 for VHD_CLOCKDIV_1 and
\* 1001 for VHD_CLOCKDIV_1001.
C33_SdiVideoResolution ==
    pc = "sdi_video_done"
       => /\ ret = [op |-> "ff_videomaster_get_video_stream_properties", rc |-> 0]
          /\ call.res = "NOERROR"
                => /\ ctx.video_width = call.characteristics.width
                   /\ ctx.video_height = call.characteristics.height
                   /\ ctx.video_interlaced = call.characteristics.interlaced
                   /\ ctx.video_frame_rate_num
                         = call.characteristics.frame_rate * 1000
          /\ hw.clock_divisor = "VHD_CLOCKDIV_1" => ctx.video_frame_rate_den = 1000
          /\ hw.clock_divisor = "VHD_CLOCKDIV_1001"
                => ctx.video_frame_rate_den = 1001

\* 1080i at 30 frames with a divisor that is neither: success, 30000 over
\* the denominator the caller had.
C33_Witness ==
    /\ pc = "sdi_video_done" /\ ret.rc = 0
    /\ hw.chn_code = "12GSDI" /\ ctx.channel_type = "SDI"
    /\ hw.clock_divisor = "OTHER"
    /\ ctx.video_width = 1920 /\ ctx.video_height = 1080
    /\ ctx.video_interlaced
    /\ ctx.video_frame_rate_num = 30000
    /\ ctx.video_frame_rate_den = 0

\* The fields of the context that describe the streams read_header set up.
StreamSchema(c) ==
    <<c.channel_type, c.has_video, c.video_frame_rate_den, c.video_codec,
      c.has_audio, c.audio_codec, c.audio_format, c.audio_sample_rate,
      c.audio_nb_channels, c.audio_sample_size>>

C35_SubBuffersFreed ==
    pc \in {"closed", "failed"} => ~ctx.sub_buffers

\* C36: a pair of info frame and status word the probe of read_header
\* accepted is not rejected by get_audio_buffer on a frame that carries the
\* same pair, the driver answering every call and the buffer allocated.
C36_SetupAndFrameAgree ==
    (pc = "audio_decoded" /\ ret.rc = 0)
       => get_audio_buffer(
              ctx,
              [DefaultFetch EXCEPT !.pair = [frame |-> call.frame,
                                             aes |-> call.aes]]).rc = 0

\* C37: no stream handle is closed while the stream started on it is still
\* running: a handle that has been closed was stopped first.
C37_StoppedBeforeClosed ==
    \A s \in DOMAIN drv.streams :
        drv.streams[s].closes > 0 => ~drv.streams[s].started

\* C38: every VHD_CloseStreamHandle and every VHD_CloseBoardHandle the
\* session issues is on a handle the driver has open at that moment: never
\* on NULL, on a handle that was not opened or on one already closed.
C38_CloseOnlyOpenHandles ==
    [][call' # call
          => /\ call'.fn = "VHD_CloseStreamHandle" => call'.h \in OpenStreams(drv)
             /\ call'.fn = "VHD_CloseBoardHandle" => call'.h \in OpenBoards(drv)]_vars

\* C39: whatever nb_channels was configured, every index at which the
\* copy loop of the deinterleaver (entered once the buffer is allocated and
\* there is a sample) reads the tables of the pairs is below their capacity,
\* VHD_NBOFGROUP * VHD_NBOFCHNPERGROUP / 2.
C39_PairIndexInTables ==
    (pc = "interleaved" /\ ret.rc = 0 /\ audio_bytes # <<>>)
       => \A stray \in StrayEntriesOf(ctx) :
             LET lanes == channel_lanes(audio_info, stray,
                                        ctx.audio_nb_channels, 0, 0)
             IN  \A k \in DOMAIN lanes : lanes[k].pair < PairCapacity

\* C40: a call of ff_videomaster_get_timestamp while no slot is locked
\* (slot_handle NULL) returns AVERROR(EINVAL), takes no reading from the
\* driver, and leaves the caller's timestamp and system_ts_base as they were.
C40_IdleSlotTimestamp ==
    [][(pc = "timestamp" /\ reads' = reads + 1 /\ ctx.slot_handle = NULL)
          => /\ return_code' = AVERROR_EINVAL
             /\ ctx'.pts = ctx.pts
             /\ system_ts_base' = system_ts_base
             /\ stamps' = stamps
             /\ call' = call /\ drv' = drv]_vars

\* The second session of the process, its slot idle, has asked twice for a
\* timestamp after the first session had captured a base.
C40_Witness ==
    /\ pc = "timestamp" /\ session = 2
    /\ ctx.slot_handle = NULL
    /\ reads = 2
    /\ return_code = AVERROR_EINVAL
    /\ system_ts_base # 0
    /\ stamps = <<>>

====
